---- MODULE Spec2Model ----
(***************************************************************************)
(* Argus: telemetry ingestion and regression detection.                    *)
(*                                                                         *)
(* Part 1: detection/detector.py, the Detector's three-strikes state       *)
(* machine, its polling loop, mark_resolved and the hand-off thread.       *)
(* Part 2: ingestion/collector.py, the flush buffer, its lock and the      *)
(* scheduled flush to the cold store.                                      *)
(* Part 3: main_agent.py, the two processes as main wires them, and the    *)
(* shutdown of the periodic loops.                                         *)
(* Part 4: actions/action_handler.py, agent/orchestrator.py and            *)
(* actions/verifier.py, the investigation pipeline behind a signal;        *)
(* detection/baseline.py and storage/knowledge_graph.py, the baselines;    *)
(* storage/cold_store.py, the Parquet archive.                             *)
(***************************************************************************)
EXTENDS Integers, Sequences, FiniteSets, TLC

VARIABLES
    running,           \* Detector.running
    dpc,               \* control point of the _detection_loop thread
    todo,              \* endpoints the for-loop of the current cycle has still to visit
    strikes,           \* Detector.strikes (a missing key reads as 0: strikes.get(e, 0))
    active_incidents,  \* Detector.active_incidents, the suppression set
    cycleErr,          \* the except branch of the loop ran in the latest cycle (line 96)
    signalled,         \* per endpoint: callbacks started since its last mark_resolved
    handoff,           \* per endpoint: state of the latest on_regression thread
    lastSignal,        \* the RegressionEvent built last
    last,              \* the latest Detector operation and the values it read
    ipc,               \* per ingest request: its control point
    hot,               \* events in the collector's HotStore
    aged,              \* events whose timestamp has left the retention window
    flush_buffer,      \* collector._flush_buffer
    buffer_lock,       \* collector._buffer_lock: who holds it
    spc,               \* control point of the run_scheduler thread
    to_flush,          \* flush_to_cold_store's local to_flush
    batches,           \* the batches passed to ColdStore.flush, in order
    archive,           \* events written to the cold store
    tmp,               \* line 137: the value strikes.get returned, not yet stored
    resolving,         \* the mark_resolved call that is between its two statements
    bpc,               \* control point of main_agent's run_scheduler thread
    down,              \* main_agent.main has caught KeyboardInterrupt
    baselines,         \* rows of the baselines table of the knowledge graph
    blast,             \* the latest operation on the baselines table and its inputs
    samples,           \* the latencies of one group, in the order they were read
    segments,          \* the Parquet files of the cold store, by partition and name
    clock,             \* the time of day datetime.now() returns, in microseconds
    alast,             \* the latest ColdStore call, its inputs and what it touched
    events,            \* the events table of a HotStore, in insertion order
    hlast              \* the latest HotStore call, its inputs and its result

dvars == <<running, dpc, todo, strikes, active_incidents, cycleErr,
           signalled, handoff, lastSignal, last>>

cvars == <<ipc, hot, aged, flush_buffer, buffer_lock, spc, to_flush, batches,
           archive>>

xvars == <<tmp, resolving, bpc, down>>

hvars == <<events, hlast>>

svars == <<baselines, blast, samples, segments, clock, alast, hvars>>

vars == <<dvars, cvars, xvars, svars>>

-----------------------------------------------------------------------------
(* Configuration, config.py *)

ANOMALY_THRESHOLD == 3

CONSECUTIVE_STRIKES == 3

-----------------------------------------------------------------------------
(* Values the Detector reads from its collaborators *)

Endpoints == {"/checkout", "/products"}

\* A value that was never read because an earlier call raised or returned.
NoValue == 0 - 1

NoBaseline == [avg_latency_ms |-> NoValue, avg_query_count |-> NoValue]

\* BaselineEngine.get_current_baseline's fallback when no record is stored.
DefaultBaseline == [avg_latency_ms |-> 50, avg_query_count |-> 3]

\* The call of one endpoint check that raises, in the order the code makes them.
ReadFaults == {"latency", "queries", "baseline"}

FireFaults == {"affected_users", "commit_shas"}

\* What one _check_endpoint call can read: the first call that raises (or
\* "none") and the values returned by the calls before it.
ReadingsOver(L, Q, B) ==
    {[fault |-> "latency", latency |-> NoValue, queries |-> NoValue,
      baseline |-> NoBaseline]}
    \cup {[fault |-> "queries", latency |-> l, queries |-> NoValue,
           baseline |-> NoBaseline] : l \in L}
    \cup {[fault |-> "none", latency |-> 0, queries |-> q,
           baseline |-> NoBaseline] : q \in Q}
    \cup {[fault |-> "baseline", latency |-> l, queries |-> q,
           baseline |-> NoBaseline] : l \in L \ {0}, q \in Q}
    \cup {[fault |-> f, latency |-> l, queries |-> q, baseline |-> b] :
             f \in {"none"} \cup FireFaults, l \in L \ {0}, q \in Q, b \in B}

Latencies == {0, 40, 200}

QueryAvgs == {3}

Baselines == {DefaultBaseline}

Readings == ReadingsOver(Latencies, QueryAvgs, Baselines)

\* Values for the scoring checks: a stored Baseline Record of 12 ms and 3
\* queries, records with a zero, and readings at, just above and well above
\* three times the baseline.
ScoreLatencies == {0, 36, 37, 60}

ScoreQueryAvgs == {0, 9, 10}

ScoreBaselines ==
    {[avg_latency_ms |-> bl, avg_query_count |-> bq] : bl \in {0, 12}, bq \in {0, 3}}

\* The readings of cycles in which every call returns.
ScoreReadings ==
    {r \in ReadingsOver(ScoreLatencies, ScoreQueryAvgs, ScoreBaselines) :
        r.fault = "none"}

NoReading == [fault |-> "none", latency |-> NoValue, queries |-> NoValue,
              baseline |-> NoBaseline]

\* HotStore.get_all_endpoints: SELECT DISTINCT endpoint, in no stated order.
EndpointLists ==
    {s \in UNION {[1..n -> Endpoints] : n \in 0..Cardinality(Endpoints)} :
        \A i, j \in DOMAIN s : i # j => s[i] # s[j]}

\* `last` after an operation that is about no endpoint.
Other == [op |-> "other", ep |-> "", rd |-> NoReading, n |-> 0, was |-> FALSE]

NoSignal == [affected_endpoint |-> "", latency_before_ms |-> NoValue,
             latency_after_ms |-> NoValue, query_count_before |-> NoValue,
             query_count_after |-> NoValue]

-----------------------------------------------------------------------------
(* Anomaly score: an exact ratio, kept as <<numerator, denominator>> *)

Ratio(n, d) == <<n, d>>

RatioGT(a, b) == a[1] * b[2] > b[1] * a[2]

\* Python's max(a, b): b only when b > a.
RatioMax(a, b) == IF RatioGT(b, a) THEN b ELSE a

compute_anomaly_score(current, baseline) ==
    IF baseline = 0 THEN Ratio(0, 1) ELSE Ratio(current, baseline)

AnomalyScore(r) ==
    RatioMax(compute_anomaly_score(r.latency, r.baseline.avg_latency_ms),
             compute_anomaly_score(r.queries, r.baseline.avg_query_count))

IsStrikeInclusive(r) ==
    ~RatioGT(Ratio(ANOMALY_THRESHOLD, 1), AnomalyScore(r))

\* line 135: anomaly_score > config.ANOMALY_THRESHOLD
IsStrike(r) == RatioGT(AnomalyScore(r), Ratio(ANOMALY_THRESHOLD, 1))

-----------------------------------------------------------------------------
(* _check_endpoint and _fire_regression as functions of the Detector state *)

\* The outcome of a call: the new strike map and suppression set, whether the
\* call raised, and the RegressionEvent handed to on_regression (or NoSignal).
Outcome(s, a, raised, sig) ==
    [strikes |-> s, active |-> a, raised |-> raised, signal |-> sig]

RegressionEventSwapped(e, r) ==
    [affected_endpoint |-> e,
     latency_before_ms |-> r.latency,
     latency_after_ms |-> r.baseline.avg_latency_ms,
     query_count_before |-> r.queries,
     query_count_after |-> r.baseline.avg_query_count]

\* lines 145-149, 184-193: the baseline values are passed as latency_before
\* and queries_before, the current values as latency_after and queries_after.
RegressionEvent(e, r) ==
    [affected_endpoint |-> e,
     latency_before_ms |-> r.baseline.avg_latency_ms,
     latency_after_ms |-> r.latency,
     query_count_before |-> r.baseline.avg_query_count,
     query_count_after |-> r.queries]

\* lines 168-201: the endpoint is suppressed and its strikes are reset before
\* the Hot Store is queried; a raising query leaves that in place and no
\* thread is started.
fire_regression(e, r, s, a) ==
    LET a2 == a \cup {e}
        s2 == [s EXCEPT ![e] = 0]
    IN  IF r.fault \in FireFaults
        THEN Outcome(s2, a2, TRUE, NoSignal)
        ELSE Outcome(s2, a2, FALSE, RegressionEvent(e, r))

StrikesAfterNormalDecay(s, e) == [s EXCEPT ![e] = IF @ > 0 THEN @ - 1 ELSE 0]

\* lines 150-154: a normal reading resets the strikes.
StrikesAfterNormal(s, e) == [s EXCEPT ![e] = 0]

NoDataOutcomeReset(s, a, e) == Outcome([s EXCEPT ![e] = 0], a, FALSE, NoSignal)

\* lines 109-110: no data, return.
NoDataOutcome(s, a, e) == Outcome(s, a, FALSE, NoSignal)

check_endpoint(e, r, s, a) ==
    IF r.fault \in {"latency", "queries"}
    THEN Outcome(s, a, TRUE, NoSignal)
    ELSE IF r.latency = 0
    THEN NoDataOutcome(s, a, e)
    ELSE IF r.fault = "baseline"
    THEN Outcome(s, a, TRUE, NoSignal)
    ELSE IF IsStrike(r)
    THEN LET s1 == [s EXCEPT ![e] = @ + 1]
         IN  IF s1[e] >= CONSECUTIVE_STRIKES
             THEN fire_regression(e, r, s1, a)
             ELSE Outcome(s1, a, FALSE, NoSignal)
    ELSE Outcome(StrikesAfterNormal(s, e), a, FALSE, NoSignal)

-----------------------------------------------------------------------------
(* Detector operations *)

DetectorInit ==
    /\ running = FALSE
    /\ dpc = "init"
    /\ todo = <<>>
    /\ strikes = [e \in Endpoints |-> 0]
    /\ active_incidents = {}
    /\ cycleErr = FALSE
    /\ signalled = [e \in Endpoints |-> 0]
    /\ handoff = [e \in Endpoints |-> "none"]
    /\ lastSignal = NoSignal
    /\ last = Other

Op(op, e, r) ==
    [op |-> op, ep |-> e, rd |-> r, n |-> strikes[e],
     was |-> e \in active_incidents]

\* Detector.start, called once by main_agent.main.
Start ==
    /\ dpc = "init"
    /\ running' = TRUE
    /\ dpc' = "top"
    /\ last' = Other
    /\ UNCHANGED <<todo, strikes, active_incidents, cycleErr, signalled,
                   handoff, lastSignal>>

\* Detector.stop
Stop ==
    /\ running' = FALSE
    /\ last' = Other
    /\ UNCHANGED <<dpc, todo, strikes, active_incidents, cycleErr, signalled,
                   handoff, lastSignal>>

PcAfterRaiseUncaught == "exited"

\* lines 95-98: except Exception, log, sleep, back to the loop test.
PcAfterRaise == "top"

PcAfterHandoffSync == "in_callback"

\* lines 195-201: on_regression runs in a thread of its own and the loop goes
\* on with the next endpoint.
PcAfterHandoff == "loop"

\* Where the loop thread is after one _check_endpoint call.
PcAfter(out) ==
    IF out.raised THEN PcAfterRaise
    ELSE IF out.signal # NoSignal THEN PcAfterHandoff
    ELSE "loop"

\* line 84: while self.running, reached from start and after every sleep.
LoopTest ==
    /\ dpc = "top"
    /\ dpc' = IF running THEN "list" ELSE "exited"
    /\ last' = Other
    /\ UNCHANGED <<running, todo, strikes, active_incidents, cycleErr,
                   signalled, handoff, lastSignal>>

\* line 86: get_all_endpoints returns a list or raises; a raise is caught
\* at line 95 and the loop sleeps.
ListEndpoints ==
    /\ dpc = "list"
    /\ \/ \E l \in EndpointLists : todo' = l /\ dpc' = "loop" /\ cycleErr' = FALSE
       \/ todo' = <<>> /\ dpc' = PcAfterRaise /\ cycleErr' = TRUE
    /\ last' = Other
    /\ UNCHANGED <<running, strikes, active_incidents, signalled, handoff,
                   lastSignal>>

\* lines 88-96: one iteration of the for-loop.  A raise leaves the for-loop
\* for the except branch; otherwise the loop goes to the next endpoint.
Iterate(R) ==
    /\ dpc = "loop"
    /\ todo # <<>>
    /\ LET e == Head(todo) IN
       IF e \in active_incidents
       THEN /\ todo' = Tail(todo)
            /\ last' = Op("skip", e, NoReading)
            /\ UNCHANGED <<running, dpc, strikes, active_incidents, cycleErr,
                           signalled, handoff, lastSignal>>
       ELSE \E r \in R :
            LET out == check_endpoint(e, r, strikes, active_incidents) IN
            /\ strikes' = out.strikes
            /\ active_incidents' = out.active
            /\ last' = Op("check", e, r)
            /\ cycleErr' = out.raised
            /\ dpc' = PcAfter(out)
            /\ todo' = IF out.raised THEN <<>> ELSE Tail(todo)
            /\ IF out.signal # NoSignal
               THEN /\ lastSignal' = out.signal
                    /\ signalled' = [signalled EXCEPT ![e] = @ + 1]
                    /\ handoff' = [handoff EXCEPT ![e] = "running"]
               ELSE UNCHANGED <<signalled, handoff, lastSignal>>
            /\ UNCHANGED running

\* lines 88, 98: the for-loop is exhausted; sleep.
CycleEnd ==
    /\ dpc = "loop"
    /\ todo = <<>>
    /\ dpc' = "top"
    /\ last' = Other
    /\ UNCHANGED <<running, todo, strikes, active_incidents, cycleErr,
                   signalled, handoff, lastSignal>>

ActiveAfterResolveAll(a, e) == {}

\* line 75: self.active_incidents.discard(endpoint)
ActiveAfterResolve(a, e) == a \ {e}

\* lines 70-77, called from another thread (the verifier's on_resolved).
mark_resolved(e) ==
    /\ active_incidents' = ActiveAfterResolve(active_incidents, e)
    /\ strikes' = [strikes EXCEPT ![e] = 0]
    /\ signalled' = [signalled EXCEPT ![e] = 0]
    /\ last' = Op("resolve", e, NoReading)
    /\ UNCHANGED <<running, dpc, todo, cycleErr, handoff, lastSignal>>

\* orchestrator.py 59-66: the first thing the on_regression thread does is
\* kg.save_incident, the only call of save_incident in the program.  It is
\* outside the try of line 68: when the INSERT raises, the thread ends and
\* no Incident Record exists.
CallbackSaves(e) ==
    /\ handoff[e] = "running"
    /\ \E res \in {"saved", "unsaved"} : handoff' = [handoff EXCEPT ![e] = res]
    /\ last' = Other
    /\ UNCHANGED <<running, dpc, todo, strikes, active_incidents, cycleErr,
                   signalled, lastSignal>>

\* The on_regression thread ends: it returns or it raises.  Nothing in the
\* Detector reads the result.
CallbackEnds(e) ==
    /\ handoff[e] = "saved"
    /\ \E res \in {"returned", "raised"} : handoff' = [handoff EXCEPT ![e] = res]
    /\ last' = Other
    /\ UNCHANGED <<running, dpc, todo, strikes, active_incidents, cycleErr,
                   signalled, lastSignal>>

DetectorLoop == LoopTest \/ ListEndpoints \/ Iterate(Readings) \/ CycleEnd

-----------------------------------------------------------------------------
(* The collector: ingest, the flush buffer and the scheduler thread *)

MaxRequests == 3

\* One ingest call per request; the event of request i is event i.
Requests == 1..MaxRequests

Free == [holder |-> "none", id |-> 0]

FlushTask == [holder |-> "flush", id |-> 0]

Ingest(i) == [holder |-> "ingest", id |-> i]

\* The payload of a request: an Event Record, or one EventSchema refuses.
Payloads == {"wellformed", "malformed"}

CollectorInit ==
    /\ ipc = [i \in Requests |-> "new"]
    /\ hot = {}
    /\ aged = {}
    /\ flush_buffer = <<>>
    /\ buffer_lock = Free
    /\ spc = "sleep"
    /\ to_flush = <<>>
    /\ batches = <<>>
    /\ archive = {}

CanAcquireUnlocked == TRUE

\* threading.Lock: acquired only while nobody holds it.
CanAcquire == buffer_lock = Free

PcAfterInvalidIgnored == "validated"

\* lines 69-71: EventSchema(**data) raised: the except clause answers 400
\* with str(e); lines 58-62 are not reached.
PcAfterInvalid == "invalid"

\* lines 41-42: a client posts request i to /ingest with some payload.
Post(i) ==
    /\ ipc[i] = "new"
    /\ \E p \in Payloads : ipc' = [ipc EXCEPT ![i] = p]
    /\ UNCHANGED <<hot, aged, flush_buffer, buffer_lock, spc, to_flush,
                   batches, archive>>

\* lines 52-55: the payload is parsed and validated.
IngestValidate(i) ==
    /\ ipc[i] \in Payloads
    /\ ipc' = [ipc EXCEPT ![i] = IF ipc[i] = "wellformed" THEN "validated"
                                                         ELSE PcAfterInvalid]
    /\ UNCHANGED <<hot, aged, flush_buffer, buffer_lock, spc, to_flush,
                   batches, archive>>

\* line 58: hot_store.insert(event); a raise is answered 400.
IngestHotInsert(i) ==
    /\ ipc[i] = "validated"
    /\ \/ hot' = hot \cup {i} /\ ipc' = [ipc EXCEPT ![i] = "inserted"]
       \/ hot' = hot /\ ipc' = [ipc EXCEPT ![i] = "rejected"]
    /\ UNCHANGED <<aged, flush_buffer, buffer_lock, spc, to_flush, batches,
                   archive>>

\* line 61: with _buffer_lock
IngestAcquire(i) ==
    /\ ipc[i] = "inserted"
    /\ CanAcquire
    /\ buffer_lock' = Ingest(i)
    /\ ipc' = [ipc EXCEPT ![i] = "locked"]
    /\ UNCHANGED <<hot, aged, flush_buffer, spc, to_flush, batches, archive>>

\* line 62: _flush_buffer.append(event), on the list the global names now.
IngestAppend(i) ==
    /\ ipc[i] = "locked"
    /\ flush_buffer' = Append(flush_buffer, i)
    /\ ipc' = [ipc EXCEPT ![i] = "appended"]
    /\ UNCHANGED <<hot, aged, buffer_lock, spc, to_flush, batches, archive>>

\* lines 62-67: the with block ends, the request is answered 200.
IngestRelease(i) ==
    /\ ipc[i] = "appended"
    /\ buffer_lock' = Free
    /\ ipc' = [ipc EXCEPT ![i] = "done"]
    /\ UNCHANGED <<hot, aged, flush_buffer, spc, to_flush, batches, archive>>

\* lines 129-131: the sleep ends and run_pending finds the two jobs due;
\* flush_to_cold_store was registered first and runs first.
SchedulerWake ==
    /\ spc = "sleep"
    /\ spc' = "flush_lock"
    /\ UNCHANGED <<ipc, hot, aged, flush_buffer, buffer_lock, to_flush,
                   batches, archive>>

\* line 108: with _buffer_lock
FlushAcquire ==
    /\ spc = "flush_lock"
    /\ CanAcquire
    /\ buffer_lock' = FlushTask
    /\ spc' = "flush_test"
    /\ UNCHANGED <<ipc, hot, aged, flush_buffer, to_flush, batches, archive>>

\* lines 109-110: an empty buffer: return, which releases the lock.
FlushTest ==
    /\ spc = "flush_test"
    /\ IF flush_buffer = <<>>
       THEN buffer_lock' = Free /\ spc' = "purge"
       ELSE buffer_lock' = buffer_lock /\ spc' = "flush_copy"
    /\ UNCHANGED <<ipc, hot, aged, flush_buffer, to_flush, batches, archive>>

\* line 112: to_flush = _flush_buffer.copy()
FlushCopy ==
    /\ spc = "flush_copy"
    /\ to_flush' = flush_buffer
    /\ spc' = "flush_assign"
    /\ UNCHANGED <<ipc, hot, aged, flush_buffer, buffer_lock, batches, archive>>

\* line 113: _flush_buffer = []
FlushAssign ==
    /\ spc = "flush_assign"
    /\ flush_buffer' = <<>>
    /\ spc' = "flush_release"
    /\ UNCHANGED <<ipc, hot, aged, buffer_lock, to_flush, batches, archive>>

LockAfterSwapHeld == FlushTask

\* lines 108-114: the with block ends after the swap, before line 115.
LockAfterSwap == Free

\* line 113-114: the with block ends.
FlushRelease ==
    /\ spc = "flush_release"
    /\ buffer_lock' = LockAfterSwap
    /\ spc' = "flush_write"
    /\ UNCHANGED <<ipc, hot, aged, flush_buffer, to_flush, batches, archive>>

Elems(q) == {q[k] : k \in DOMAIN q}

\* lines 129-131: run_scheduler calls schedule.run_pending in a bare
\* while True; a job that raises is caught neither by the job, nor by
\* run_pending, nor by the loop: the scheduler thread ends.
SchedulerAfterRaise == "dead"

\* lines 115-116: cold_store.flush(to_flush) writes one file per hour
\* partition; a raise leaves the partitions already written and skips the
\* rest.  to_flush is a local of the call: it is gone when the call ends.
ColdFlush ==
    /\ spc = "flush_write"
    /\ batches' = Append(batches, to_flush)
    /\ to_flush' = <<>>
    /\ \/ archive' = archive \cup Elems(to_flush) /\ spc' = "purge"
       \/ \E S \in SUBSET Elems(to_flush) :
             /\ S # Elems(to_flush)
             /\ archive' = archive \cup S
             /\ spc' = SchedulerAfterRaise
    /\ UNCHANGED <<ipc, hot, aged, flush_buffer, buffer_lock>>

\* lines 119-121: purge_hot_store, the second job; then line 131, the sleep.
Purge ==
    /\ spc = "purge"
    /\ \/ hot' = hot \ aged /\ spc' = "sleep"
       \/ hot' = hot /\ spc' = SchedulerAfterRaise
    /\ UNCHANGED <<ipc, aged, flush_buffer, buffer_lock, to_flush, batches,
                   archive>>

\* Time passes: the timestamp of an event stored in the Hot Store falls out
\* of the retention window.
Age(i) ==
    /\ i \in hot \ aged
    /\ aged' = aged \cup {i}
    /\ UNCHANGED <<ipc, hot, flush_buffer, buffer_lock, spc, to_flush,
                   batches, archive>>

-----------------------------------------------------------------------------
(* The stores: the baselines table and the cold store *)

NoBaselineOp == [op |-> "none"]

NoArchiveOp == [op |-> "none"]

NoHotOp == [op |-> "none"]

StorageInit ==
    /\ baselines = {}
    /\ blast = NoBaselineOp
    /\ samples = <<>>
    /\ segments = <<>>
    /\ clock = 0
    /\ alast = NoArchiveOp
    /\ events = <<>>
    /\ hlast = NoHotOp

-----------------------------------------------------------------------------
(* The Hot Store: the events table and its queries, storage/hot_store.py *)

\* config.py 29: minutes an event is kept.
HOT_STORE_WINDOW_MIN == 30

\* hot_store.py 110, 137, 177, 214: INTERVAL 30 MINUTE of the trend queries.
TrendWindowMin == 30

\* detector.py 106-107: minutes=3.
CheckWindowMin == 3

\* NOW(), in minutes; the timestamps of the events are minutes before it.
HotNow == 31

\* No insert is made into a table of this many rows.
MaxEvents == 3

\* The rows that are inserted.  For /checkout: one that has left the
\* retention window, one at its edge, one five minutes old of revision "a"
\* with many queries, one two minutes old of revision "b", and a server
\* error one minute old, of revision "a" again.  One row of /products.
HotRows ==
    {[timestamp |-> 0, endpoint |-> "/checkout", status_code |-> 200,
      latency_ms |-> 40, db_query_count |-> 3, commit_sha |-> "a"],
     [timestamp |-> 1, endpoint |-> "/checkout", status_code |-> 200,
      latency_ms |-> 40, db_query_count |-> 3, commit_sha |-> "a"],
     [timestamp |-> 26, endpoint |-> "/checkout", status_code |-> 200,
      latency_ms |-> 200, db_query_count |-> 30, commit_sha |-> "a"],
     [timestamp |-> 29, endpoint |-> "/checkout", status_code |-> 200,
      latency_ms |-> 40, db_query_count |-> 3, commit_sha |-> "b"],
     [timestamp |-> 30, endpoint |-> "/checkout", status_code |-> 500,
      latency_ms |-> 200, db_query_count |-> 3, commit_sha |-> "a"],
     [timestamp |-> 30, endpoint |-> "/products", status_code |-> 200,
      latency_ms |-> 40, db_query_count |-> 3, commit_sha |-> "c"]}

RECURSIVE SumLatency(_)
SumLatency(q) == IF q = <<>> THEN 0 ELSE Head(q).latency_ms + SumLatency(Tail(q))

RECURSIVE SumQueries(_)
SumQueries(q) == IF q = <<>> THEN 0 ELSE Head(q).db_query_count + SumQueries(Tail(q))

\* A variant that counts the server errors too.
StatusCountedAll(status_code) == TRUE

\* hot_store.py 90: AND status_code < 500.
StatusCounted(status_code) == status_code < 500

\* hot_store.py 80-93: AVG(latency_ms) over the rows of the endpoint newer
\* than NOW() - minutes with a status below 500, as a fraction; 0.0 when
\* the average is NULL (no row) or 0.
get_recent_latency(T, endpoint, minutes) ==
    LET rows == SelectSeq(T, LAMBDA r : /\ r.endpoint = endpoint
                                        /\ r.timestamp > HotNow - minutes
                                        /\ StatusCounted(r.status_code))
    IN  IF rows = <<>> \/ SumLatency(rows) = 0
        THEN <<0, 1>>
        ELSE <<SumLatency(rows), Len(rows)>>

\* round(x, 1) of the fraction num / den, in tenths: to the nearest tenth,
\* a tie to the even one.
Round1(num, den) ==
    LET q == (10 * num) \div den
        r == (10 * num) % den
    IN  IF 2 * r < den THEN q
        ELSE IF 2 * r > den THEN q + 1
        ELSE IF q % 2 = 0 THEN q ELSE q + 1

\* hot_store.py 130-140: one entry per minute that has a row, ascending.
RECURSIVE TrendOf(_, _)
TrendOf(rows, minutes) ==
    IF minutes = {} THEN <<>>
    ELSE LET m == CHOOSE x \in minutes : \A y \in minutes : x <= y
             g == SelectSeq(rows, LAMBDA r : r.timestamp = m)
         IN  <<[minute |-> m, avg_queries |-> Round1(SumQueries(g), Len(g))]>>
                 \o TrendOf(rows, minutes \ {m})

\* hot_store.py 125-149: the rows of the endpoint of the last 30 minutes,
\* averaged per minute; avg_queries in tenths.
get_query_count_trend(T, endpoint) ==
    LET rows == SelectSeq(T, LAMBDA r : /\ r.endpoint = endpoint
                                        /\ r.timestamp > HotNow - TrendWindowMin)
    IN  TrendOf(rows, {rows[i].timestamp : i \in 1..Len(rows)})

RECURSIVE SumAvgQueries(_)
SumAvgQueries(q) == IF q = <<>> THEN 0 ELSE Head(q).avg_queries + SumAvgQueries(Tail(q))

\* detector.py 203-209: the mean of the last `minutes` entries of the
\* trend, of all of them if there are fewer; as a fraction.
get_current_query_avg(T, endpoint, minutes) ==
    LET trend == get_query_count_trend(T, endpoint)
        recent == IF Len(trend) >= minutes
                  THEN SubSeq(trend, Len(trend) - minutes + 1, Len(trend))
                  ELSE trend
    IN  IF trend = <<>> THEN <<0, 1>>
        ELSE <<SumAvgQueries(recent), 10 * Len(recent)>>

\* hot_store.py 173-180: the revisions of the rows, each with the minute it
\* was first seen in, the latest first.
RECURSIVE ShasByFirstSeen(_, _)
ShasByFirstSeen(rows, shas) ==
    IF shas = {} THEN <<>>
    ELSE LET first_seen(c) ==
                 LET ts == {rows[i].timestamp : i \in {j \in 1..Len(rows) : rows[j].commit_sha = c}}
                 IN  CHOOSE x \in ts : \A y \in ts : x <= y
             c0 == CHOOSE c \in shas : \A d \in shas : first_seen(c) >= first_seen(d)
         IN  <<c0>> \o ShasByFirstSeen(rows, shas \ {c0})

\* hot_store.py 167-182.
get_recent_commit_shas(T, endpoint) ==
    LET rows == SelectSeq(T, LAMBDA r : /\ r.endpoint = endpoint
                                        /\ r.timestamp > HotNow - TrendWindowMin)
    IN  ShasByFirstSeen(rows, {rows[i].commit_sha : i \in 1..Len(rows)})

\* A variant that evicts the row inserted first, whatever its age.
purge_oldest_inserted(T) == IF T = <<>> THEN T ELSE Tail(T)

\* hot_store.py 218-229: DELETE ... WHERE timestamp < NOW() - 30 minutes.
purge_old_events(T) ==
    SelectSeq(T, LAMBDA r : ~(r.timestamp < HotNow - HOT_STORE_WINDOW_MIN))

\* hot_store.py 58-78: HotStore.insert.
HotInsert ==
    /\ Len(events) < MaxEvents
    /\ \E r \in HotRows : events' = Append(events, r)
    /\ hlast' = [op |-> "insert"]
    /\ UNCHANGED <<baselines, blast, samples, segments, clock, alast>>

\* collector.py 119-121: purge_hot_store.
HotPurge ==
    /\ events' = purge_old_events(events)
    /\ hlast' = [op |-> "purge", before |-> events]
    /\ UNCHANGED <<baselines, blast, samples, segments, clock, alast>>

\* get_recent_latency as the Detector (minutes=3) and the verifier
\* (minutes=2) call it.
RecentLatency ==
    /\ \E e \in Endpoints, minutes \in {2, CheckWindowMin} :
          hlast' = [op |-> "latency", endpoint |-> e, minutes |-> minutes,
                    result |-> get_recent_latency(events, e, minutes)]
    /\ UNCHANGED <<baselines, blast, samples, segments, clock, alast, events>>

\* detector.py 106-107: the two readings of _check_endpoint.
ReadMetrics ==
    /\ \E e \in Endpoints :
          hlast' = [op |-> "metrics", endpoint |-> e,
                    current_latency |-> get_recent_latency(events, e, CheckWindowMin),
                    current_queries |-> get_current_query_avg(events, e, CheckWindowMin)]
    /\ UNCHANGED <<baselines, blast, samples, segments, clock, alast, events>>

\* detector.py 180-181: the suspect commit of _fire_regression.
SuspectCommit ==
    /\ \E e \in Endpoints :
          LET recent_shas == get_recent_commit_shas(events, e)
          IN  hlast' = [op |-> "shas", endpoint |-> e, recent_shas |-> recent_shas,
                        commit_sha |-> IF recent_shas # <<>> THEN recent_shas[1]
                                       ELSE "unknown"]
    /\ UNCHANGED <<baselines, blast, samples, segments, clock, alast, events>>

-----------------------------------------------------------------------------
(* The Baseline Engine: compute_baseline over the archived history *)

\* baseline.py 42: fewer archived events than this and the defaults are used.
MinHistory == 50

\* baseline.py 64: a time slot with fewer samples than this is skipped.
MinGroup == 5

\* The (hour of day, day of week) slots of the model: two consecutive hours
\* of a Tuesday.
Slots == {<<14, 1>>, <<15, 1>>}

\* The values of sample_size-many latencies read for one sample group.
SampleValues == {10, 20, 100}

\* The longest group of samples read one by one.
MaxSamples == 6

\* The number of events of a slot read before those: with more than 20
\* samples the index of the p95 is no longer that of the maximum.
BulkSize == 16

\* The slot the samples belong to.
SampleSlot == <<14, 1>>

\* The numbers of events the two slots hold in the archived history: the
\* first around the threshold for a group, the totals around the threshold
\* for the history (4 + 45 = 49, 5 + 45 = 4 + 46 = 50).
Histories ==
    {sizes \in [Slots -> {0, 4, 5, 45, 46}] :
        sizes[<<14, 1>>] \in {4, 5} /\ sizes[<<15, 1>>] \in {0, 45, 46}}

\* The events of one slot as read_historical returns them: n events, the
\* slowest and the fastest first, three queries each.
SlotEvents(n) ==
    [i \in 1..n |-> [latency_ms |-> IF i = 1 THEN 100 ELSE IF i = 2 THEN 10 ELSE 20,
                     db_query_count |-> 3]]

\* The metrics of _set_default_baseline; the averages are exact fractions.
DefaultMetrics ==
    [avg_latency_ms |-> <<50, 1>>, p95_latency_ms |-> 100,
     avg_query_count |-> <<3, 1>>, sample_size |-> 0]

RECURSIVE SumSeq(_)
SumSeq(q) == IF q = <<>> THEN 0 ELSE Head(q) + SumSeq(Tail(q))

\* statistics.mean, as the fraction sum / count.
Mean(q) == <<SumSeq(q), Len(q)>>

RECURSIVE InsertSorted(_, _)
InsertSorted(x, q) ==
    IF q = <<>> THEN <<x>>
    ELSE IF x <= Head(q) THEN <<x>> \o q
    ELSE <<Head(q)>> \o InsertSorted(x, Tail(q))

\* sorted(latencies), ascending.
RECURSIVE sorted(_)
sorted(q) == IF q = <<>> THEN <<>> ELSE InsertSorted(Head(q), sorted(Tail(q)))

\* A variant that keeps the samples in the order they were read.
LatenciesUnsorted(q) == q

\* baseline.py 67: the list that is indexed.
Latencies95(q) == sorted(q)

\* baseline.py 68: int(len(latencies) * 0.95); the floating-point product
\* truncates to the same integer as the exact 95 n / 100 for every n.
P95Index(n) == (n * 95) \div 100

\* baseline.py 67-79: the metrics of one group; Python indexes from 0.
GroupMetrics(lat, qc) ==
    [avg_latency_ms |-> Mean(Latencies95(lat)),
     p95_latency_ms |-> Latencies95(lat)[P95Index(Len(lat)) + 1],
     avg_query_count |-> Mean(qc),
     sample_size |-> Len(lat)]

\* A row of the baselines table (without id and last_updated).
BaselineRow(e, hour, day, m) ==
    [endpoint |-> e, hour_of_day |-> hour, day_of_week |-> day, metrics |-> m]

KeyOf(r) == <<r.endpoint, r.hour_of_day, r.day_of_week>>

\* A plain INSERT without the ON CONFLICT clause and without the constraint.
update_baseline_insert(T, e, hour, day, m) == T \cup {BaselineRow(e, hour, day, m)}

\* knowledge_graph.py 100-126: INSERT ... ON CONFLICT(endpoint, hour_of_day,
\* day_of_week) DO UPDATE, one statement, then commit.
update_baseline(T, e, hour, day, m) ==
    {r \in T : KeyOf(r) # <<e, hour, day>>} \cup {BaselineRow(e, hour, day, m)}

\* A variant that needs more than MinHistory events.
EnoughHistoryStrict(n) == n > MinHistory

\* baseline.py 42: not (len(historical) < 50).
EnoughHistory(n) == n >= MinHistory

\* A variant that lets a group of MinGroup - 1 samples through.
EnoughSamplesLoose(n) == n >= MinGroup - 1

\* baseline.py 64: not (len(data["latencies"]) < 5).
EnoughSamples(n) == n >= MinGroup

\* baseline.py 51-60: groups has a key for every slot with an event.
GroupKeys(hist) == {sl \in DOMAIN hist : Len(hist[sl]) > 0}

\* baseline.py 63-80: the loop over the groups, in any order (the keys are
\* distinct, so the order does not matter).
RECURSIVE UpsertGroups(_, _, _, _)
UpsertGroups(T, e, hist, keys) ==
    IF keys = {} THEN T
    ELSE LET sl == CHOOSE k \in keys : TRUE
             lat == [i \in 1..Len(hist[sl]) |-> hist[sl][i].latency_ms]
             qc == [i \in 1..Len(hist[sl]) |-> hist[sl][i].db_query_count]
             T1 == IF EnoughSamples(Len(lat))
                   THEN update_baseline(T, e, sl[1], sl[2], GroupMetrics(lat, qc))
                   ELSE T
         IN  UpsertGroups(T1, e, hist, keys \ {sl})

RECURSIVE TotalEvents(_, _)
TotalEvents(hist, keys) ==
    IF keys = {} THEN 0
    ELSE LET sl == CHOOSE k \in keys : TRUE
         IN  Len(hist[sl]) + TotalEvents(hist, keys \ {sl})

\* baseline.py 110-123: the defaults, for the slot of the current time only.
set_default_baseline(T, e, now) == update_baseline(T, e, now[1], now[2], DefaultMetrics)

\* baseline.py 30-83, on the table T with the history hist of endpoint e
\* read at the time slot now.
compute_baseline(T, e, now, hist) ==
    IF ~EnoughHistory(TotalEvents(hist, DOMAIN hist))
    THEN set_default_baseline(T, e, now)
    ELSE UpsertGroups(T, e, hist, GroupKeys(hist))

\* The keys the call passes to update_baseline, with the metrics for each.
Upserted(e, now, hist) ==
    IF ~EnoughHistory(TotalEvents(hist, DOMAIN hist))
    THEN [k \in {<<e, now[1], now[2]>>} |-> DefaultMetrics]
    ELSE [k \in {<<e, sl[1], sl[2]>> :
                    sl \in {x \in GroupKeys(hist) : EnoughSamples(Len(hist[x]))}} |->
            LET g == hist[<<k[2], k[3]>>]
            IN  GroupMetrics([i \in 1..Len(g) |-> g[i].latency_ms],
                             [i \in 1..Len(g) |-> g[i].db_query_count])]

\* main_agent.py 87-105: recompute_baselines calls compute_baseline for an
\* endpoint; the history holds sizes[slot] events for each slot.
ComputeBaseline ==
    \E e \in Endpoints, now \in Slots, sizes \in Histories :
        LET hist == [sl \in Slots |-> SlotEvents(sizes[sl])]
            up == Upserted(e, now, hist)
            old == IF blast.op = "compute" THEN blast.upserts ELSE <<>>
        IN  /\ baselines' = compute_baseline(baselines, e, now, hist)
            /\ blast' = [op |-> "compute", endpoint |-> e, now |-> now,
                         sizes |-> sizes,
                         replaced |-> {k \in DOMAIN up : \E r \in baselines :
                                         KeyOf(r) = k /\ r.metrics # up[k]},
                         upserts |-> [k \in DOMAIN old \cup DOMAIN up |->
                                        IF k \in DOMAIN up THEN up[k] ELSE old[k]]]
            /\ UNCHANGED <<samples, segments, clock, alast, hvars>>

-----------------------------------------------------------------------------
(* The cold store: Parquet segments in hourly partitions *)

\* The readings of datetime.now() per hour of the model.
TicksPerHour == 2

\* strftime('%H%M%S%f') names the time of day: it repeats every 24 hours.
HoursPerDay == 24

\* The last reading of the clock.
MaxClock == 3

\* No flush is started once the archive holds this many segments.
MaxSegments == 2

\* Optional[str] = None of EventSchema.error_message.
None == "None"

HourOf(t) == t \div TicksPerHour

\* Event Records: the hour of the timestamp, the reading of the clock it
\* was taken at, whether it has microseconds below the millisecond, the
\* endpoint and the error message.
ArchiveEvents ==
    {[timestamp |-> [hour |-> 0, tick |-> 1, sub_ms |-> 0], endpoint |-> "/checkout",
      error_message |-> "timeout"],
     [timestamp |-> [hour |-> 0, tick |-> 0, sub_ms |-> 1], endpoint |-> "/products",
      error_message |-> None],
     [timestamp |-> [hour |-> 1, tick |-> 2, sub_ms |-> 0], endpoint |-> "/checkout",
      error_message |-> None]}

\* The batches handed to flush: one or two events.
ArchiveBatches ==
    {<<x>> : x \in ArchiveEvents} \cup
    {q \in {<<x, y>> : x, y \in ArchiveEvents} : q[1] # q[2]}

\* cold_store.py 60-73, without config.DATA_DIR: the partition of a
\* timestamp is its hour (with year, month and day).
get_partition_path(ts) == ts.hour

\* cold_store.py 25-38 and 102-115: the row pyarrow stores for an event.
\* pa.timestamp("ms") drops the microseconds below the millisecond, and
\* error_message or "" stores the empty string for None.
ToArrow(e) ==
    [timestamp |-> [hour |-> e.timestamp.hour, tick |-> e.timestamp.tick, sub_ms |-> 0],
     endpoint |-> e.endpoint,
     error_message |-> IF e.error_message = None THEN "" ELSE e.error_message]

\* table.to_pylist(): the stored values as they are.
ToPylist(row) == row

\* cold_store.py 119-120: part-<time of day of datetime.now()>.parquet.
SegmentName(t) == t % (HoursPerDay * TicksPerHour)

\* The events of the batch that fall into the partition p, in their order.
RECURSIVE PartitionEvents(_, _)
PartitionEvents(batch, p) ==
    IF batch = <<>> THEN <<>>
    ELSE IF get_partition_path(Head(batch).timestamp) = p
         THEN <<Head(batch)>> \o PartitionEvents(Tail(batch), p)
         ELSE PartitionEvents(Tail(batch), p)

\* cold_store.py 98-123: one segment; pq.write_table replaces a file that
\* has the same path.  The field "of" keeps the events the rows were made
\* from.
write_partition(S, p, evs, t) ==
    LET key == <<p, SegmentName(t)>>
        seg == [rows |-> [i \in 1..Len(evs) |-> ToArrow(evs[i])], of |-> evs]
    IN  [k \in DOMAIN S \cup {key} |-> IF k = key THEN seg ELSE S[k]]

\* cold_store.py 92-94: the loop over the partitions of the batch.
RECURSIVE WritePartitions(_, _, _, _)
WritePartitions(S, batch, ps, t) ==
    IF ps = {} THEN S
    ELSE LET p == CHOOSE x \in ps : TRUE
         IN  WritePartitions(write_partition(S, p, PartitionEvents(batch, p), t),
                             batch, ps \ {p}, t)

\* cold_store.py 84-90: the partitions present in the batch.
BatchPartitions(batch) == {get_partition_path(batch[i].timestamp) : i \in 1..Len(batch)}

\* cold_store.py 75-96: ColdStore.flush of a batch, by the collector or by
\* another writer that reads the same clock.
Flush ==
    /\ Cardinality(DOMAIN segments) < MaxSegments
    /\ \E batch \in ArchiveBatches :
          /\ segments' = WritePartitions(segments, batch, BatchPartitions(batch), clock)
          /\ alast' = [op |-> "flush", batch |-> batch, at |-> clock,
                       written |-> {<<p, SegmentName(clock)>> : p \in BatchPartitions(batch)}]
    /\ UNCHANGED <<baselines, blast, samples, clock, hvars>>

\* Time passes between two readings of the clock.
Tick ==
    /\ clock < MaxClock
    /\ clock' = clock + 1
    /\ UNCHANGED <<baselines, blast, samples, segments, alast, hvars>>

\* A variant that looks one hour further back.
HoursAgoInclusive(hours_back) == 0..hours_back

\* cold_store.py 135: range(hours_back).
HoursAgo(hours_back) == 0..(hours_back - 1)

\* The names of the segments of partition p.
NamesIn(S, p) == {k[2] : k \in {x \in DOMAIN S : x[1] = p}}

\* cold_store.py 145-154: the rows of the endpoint in the files of one
\* partition, file by file.
RECURSIVE ReadSegments(_, _, _, _)
ReadSegments(S, p, names, endpoint) ==
    IF names = {} THEN <<>>
    ELSE LET nm == CHOOSE x \in names : \A y \in names : x <= y
             rows == SelectSeq(S[<<p, nm>>].rows, LAMBDA r : r.endpoint = endpoint)
         IN  [i \in 1..Len(rows) |-> ToPylist(rows[i])]
                 \o ReadSegments(S, p, names \ {nm}, endpoint)

\* cold_store.py 135-154: the loop over hours_ago; the result is the
\* partitions opened and the rows read.
RECURSIVE ReadHours(_, _, _, _)
ReadHours(S, endpoint, now, ago) ==
    IF ago = {} THEN [opened |-> {}, results |-> <<>>]
    ELSE LET h == CHOOSE x \in ago : \A y \in ago : x <= y
             p == HourOf(now) - h
             rest == ReadHours(S, endpoint, now, ago \ {h})
         IN  [opened |-> {p} \cup rest.opened,
              results |-> ReadSegments(S, p, NamesIn(S, p), endpoint) \o rest.results]

\* cold_store.py 125-156: ColdStore.read_historical.
read_historical(S, endpoint, hours_back, now) ==
    ReadHours(S, endpoint, now, HoursAgo(hours_back))

ReadHistorical ==
    /\ \E endpoint \in Endpoints, hours_back \in 1..2 :
          LET r == read_historical(segments, endpoint, hours_back, clock)
          IN  alast' = [op |-> "read", endpoint |-> endpoint, hours_back |-> hours_back,
                        at |-> clock, opened |-> r.opened, results |-> r.results]
    /\ UNCHANGED <<baselines, blast, samples, segments, clock, hvars>>

-----------------------------------------------------------------------------
(* Specifications *)

\* No mark_resolved call is under way.
Idle == [ep |-> "", struck |-> FALSE]

ExtraInit ==
    /\ tmp = NoValue
    /\ resolving = Idle
    /\ bpc = "init"
    /\ down = FALSE

Init == DetectorInit /\ CollectorInit /\ ExtraInit /\ StorageInit

\* The agent process: the Detector, its callers and its callback threads.
Next ==
    \/ Start /\ UNCHANGED <<cvars, xvars, svars>>
    \/ Stop /\ UNCHANGED <<cvars, xvars, svars>>
    \/ LoopTest /\ UNCHANGED <<cvars, xvars, svars>>
    \/ ListEndpoints /\ UNCHANGED <<cvars, xvars, svars>>
    \/ Iterate(Readings) /\ UNCHANGED <<cvars, xvars, svars>>
    \/ CycleEnd /\ UNCHANGED <<cvars, xvars, svars>>
    \/ \E e \in Endpoints : mark_resolved(e) /\ UNCHANGED <<cvars, xvars, svars>>
    \/ \E e \in Endpoints : CallbackSaves(e) /\ UNCHANGED <<cvars, xvars, svars>>
    \/ \E e \in Endpoints : CallbackEnds(e) /\ UNCHANGED <<cvars, xvars, svars>>

Spec == Init /\ [][Next]_vars

\* The loop is a thread of its own: the scheduler runs it whenever it can run.
FairSpec == Spec /\ WF_vars(DetectorLoop /\ UNCHANGED <<cvars, xvars, svars>>)

\* The Detector over the scoring values.
ScoreNext ==
    \/ Start /\ UNCHANGED <<cvars, xvars, svars>>
    \/ LoopTest /\ UNCHANGED <<cvars, xvars, svars>>
    \/ ListEndpoints /\ UNCHANGED <<cvars, xvars, svars>>
    \/ Iterate(ScoreReadings) /\ UNCHANGED <<cvars, xvars, svars>>
    \/ CycleEnd /\ UNCHANGED <<cvars, xvars, svars>>
    \/ \E e \in Endpoints : mark_resolved(e) /\ UNCHANGED <<cvars, xvars, svars>>

ScoreSpec == Init /\ [][ScoreNext]_vars

\* The collector process: the request threads and the scheduler thread.
CollectorNext ==
    \/ \E i \in Requests : Post(i) /\ UNCHANGED <<dvars, xvars, svars>>
    \/ \E i \in Requests : IngestValidate(i) /\ UNCHANGED <<dvars, xvars, svars>>
    \/ \E i \in Requests : IngestHotInsert(i) /\ UNCHANGED <<dvars, xvars, svars>>
    \/ \E i \in Requests : IngestAcquire(i) /\ UNCHANGED <<dvars, xvars, svars>>
    \/ \E i \in Requests : IngestAppend(i) /\ UNCHANGED <<dvars, xvars, svars>>
    \/ \E i \in Requests : IngestRelease(i) /\ UNCHANGED <<dvars, xvars, svars>>
    \/ SchedulerWake /\ UNCHANGED <<dvars, xvars, svars>>
    \/ FlushAcquire /\ UNCHANGED <<dvars, xvars, svars>>
    \/ FlushTest /\ UNCHANGED <<dvars, xvars, svars>>
    \/ FlushCopy /\ UNCHANGED <<dvars, xvars, svars>>
    \/ FlushAssign /\ UNCHANGED <<dvars, xvars, svars>>
    \/ FlushRelease /\ UNCHANGED <<dvars, xvars, svars>>
    \/ ColdFlush /\ UNCHANGED <<dvars, xvars, svars>>
    \/ Purge /\ UNCHANGED <<dvars, xvars, svars>>
    \/ \E i \in Requests : Age(i) /\ UNCHANGED <<dvars, xvars, svars>>

CollectorSpec == Init /\ [][CollectorNext]_vars

\* One step of the scheduler thread.
SchedulerStep ==
    \/ SchedulerWake
    \/ FlushAcquire
    \/ FlushTest
    \/ FlushCopy
    \/ FlushAssign
    \/ FlushRelease
    \/ ColdFlush
    \/ Purge

\* One step of the thread that serves request i.
IngestStep(i) ==
    \/ Post(i)
    \/ IngestValidate(i)
    \/ IngestHotInsert(i)
    \/ IngestAcquire(i)
    \/ IngestAppend(i)
    \/ IngestRelease(i)

\* Every thread of the collector that can run does run, and the timer of
\* the scheduler goes off again and again.
FairCollectorSpec ==
    /\ CollectorSpec
    /\ WF_vars(SchedulerStep /\ UNCHANGED <<dvars, xvars, svars>>)
    /\ \A i \in Requests : WF_vars(IngestStep(i) /\ UNCHANGED <<dvars, xvars, svars>>)

-----------------------------------------------------------------------------
(* The investigation pipeline: the on_regression thread and the verifier   *)

\* orchestrator.py 68-127: the five steps build the report and line 118
\* passes it to ActionHandler.handle; an exception in a step is caught at
\* line 122, handle_failure alerts, and the thread ends by re-raising.
Investigate(e) ==
    /\ handoff[e] = "saved"
    /\ \E res \in {"reported", "failed"} : handoff' = [handoff EXCEPT ![e] = res]
    /\ UNCHANGED <<running, dpc, todo, strikes, active_incidents, cycleErr,
                   signalled, lastSignal, last>>

\* action_handler.py 33-66: the PR and the alert, then the gate.  Without
\* should_auto_deploy, or with a failed CI check, handle logs and returns:
\* a human is to review the PR.  An exception raised here ends the thread
\* through line 122 of the orchestrator.
Handle(e) ==
    /\ handoff[e] = "reported"
    /\ \E res \in {"review", "deploying", "failed"} :
          handoff' = [handoff EXCEPT ![e] = res]
    /\ UNCHANGED <<running, dpc, todo, strikes, active_incidents, cycleErr,
                   signalled, lastSignal, last>>

\* action_handler.py 68-111: apply_fix_and_restart; on failure an alert and
\* return, on success the verifier thread is started.
AutoDeploy(e) ==
    /\ handoff[e] = "deploying"
    /\ \E res \in {"deploy_failed", "verifying"} :
          handoff' = [handoff EXCEPT ![e] = res]
    /\ UNCHANGED <<running, dpc, todo, strikes, active_incidents, cycleErr,
                   signalled, lastSignal, last>>

\* action_handler.py 103: the baseline handed to verify_fix is the report's
\* latency_before_ms.
VerifyBaselineMs == DefaultBaseline.avg_latency_ms

\* verifier.py 44: what get_recent_latency(endpoint, minutes=2) returns in
\* one round of the loop: no data, the threshold itself, just above it.
VerifyLatencies == {0, 65, 66}

RecoveredOrNoData(recent_latency, baseline_latency_ms) ==
    10 * recent_latency <= 13 * baseline_latency_ms

\* verifier.py 38, 46-47, 54: a reading of 0 is skipped; otherwise recovery
\* is recent_latency <= baseline_latency_ms * RECOVERY_THRESHOLD (1.3).
Recovered(recent_latency, baseline_latency_ms) ==
    /\ recent_latency # 0
    /\ 10 * recent_latency <= 13 * baseline_latency_ms

VerifyReading(lat) ==
    [fault |-> "none", latency |-> lat, queries |-> NoValue,
     baseline |-> [avg_latency_ms |-> VerifyBaselineMs,
                   avg_query_count |-> NoValue]]

\* verifier.py 40-54: one round of the loop.  The reading is 0 or above the
\* threshold and the loop goes on, or it confirms the recovery.
VerifyObserve(e) ==
    /\ handoff[e] = "verifying"
    /\ \E lat \in VerifyLatencies :
          /\ last' = Op("verify", e, VerifyReading(lat))
          /\ handoff' = [handoff EXCEPT ![e] =
                            IF Recovered(lat, VerifyBaselineMs)
                            THEN "recovered" ELSE "verifying"]
    /\ UNCHANGED <<running, dpc, todo, strikes, active_incidents, cycleErr,
                   signalled, lastSignal>>

\* verifier.py 65-70 and knowledge_graph.py 175-193: resolve_incident sets
\* resolved = 1 on the Incident Record and commits; when the UPDATE raises,
\* the verifier thread ends with the exception.
LedgerResolve(e) ==
    /\ handoff[e] = "recovered"
    /\ \E res \in {"recorded", "failed"} : handoff' = [handoff EXCEPT ![e] = res]
    /\ UNCHANGED <<running, dpc, todo, strikes, active_incidents, cycleErr,
                   signalled, lastSignal, last>>

\* verifier.py 40-86: the latency did not recover within the timeout;
\* on_failed alerts (action_handler.py 93-97) and verify_fix returns False.
VerifyTimesOut(e) ==
    /\ handoff[e] = "verifying"
    /\ handoff' = [handoff EXCEPT ![e] = "timed_out"]
    /\ UNCHANGED <<running, dpc, todo, strikes, active_incidents, cycleErr,
                   signalled, lastSignal, last>>

\* verifier.py 72-75 and action_handler.py 82-91: on_resolved sends the
\* resolution message and then calls detector.mark_resolved, the only call
\* of it; send_resolution_message catches SlackApiError alone, any other
\* exception ends the thread before mark_resolved.
VerifyResolves(e) ==
    /\ handoff[e] = "recorded"
    /\ \/ /\ handoff' = [handoff EXCEPT ![e] = "resolved"]
          /\ active_incidents' = ActiveAfterResolve(active_incidents, e)
          /\ strikes' = [strikes EXCEPT ![e] = 0]
          /\ signalled' = [signalled EXCEPT ![e] = 0]
          /\ last' = Op("resolve", e, NoReading)
       \/ /\ handoff' = [handoff EXCEPT ![e] = "failed"]
          /\ UNCHANGED <<strikes, active_incidents, signalled, last>>
    /\ UNCHANGED <<running, dpc, todo, cycleErr, lastSignal>>

\* One step of the threads that work on the latest signal for e.
PipelineStep(e) ==
    \/ CallbackSaves(e)
    \/ Investigate(e)
    \/ Handle(e)
    \/ AutoDeploy(e)
    \/ VerifyObserve(e)
    \/ LedgerResolve(e)
    \/ VerifyTimesOut(e)
    \/ VerifyResolves(e)

PipelineNext ==
    \/ Start /\ UNCHANGED <<cvars, xvars, svars>>
    \/ LoopTest /\ UNCHANGED <<cvars, xvars, svars>>
    \/ ListEndpoints /\ UNCHANGED <<cvars, xvars, svars>>
    \/ Iterate(Readings) /\ UNCHANGED <<cvars, xvars, svars>>
    \/ CycleEnd /\ UNCHANGED <<cvars, xvars, svars>>
    \/ \E e \in Endpoints : CallbackSaves(e) /\ UNCHANGED <<cvars, xvars, svars>>
    \/ \E e \in Endpoints : Investigate(e) /\ UNCHANGED <<cvars, xvars, svars>>
    \/ \E e \in Endpoints : Handle(e) /\ UNCHANGED <<cvars, xvars, svars>>
    \/ \E e \in Endpoints : AutoDeploy(e) /\ UNCHANGED <<cvars, xvars, svars>>
    \/ \E e \in Endpoints : VerifyObserve(e) /\ UNCHANGED <<cvars, xvars, svars>>
    \/ \E e \in Endpoints : LedgerResolve(e) /\ UNCHANGED <<cvars, xvars, svars>>
    \/ \E e \in Endpoints : VerifyTimesOut(e) /\ UNCHANGED <<cvars, xvars, svars>>
    \/ \E e \in Endpoints : VerifyResolves(e) /\ UNCHANGED <<cvars, xvars, svars>>

PipelineSpec == Init /\ [][PipelineNext]_vars

\* The loop thread and the threads of the pipeline run whenever they can.
FairPipelineSpec ==
    /\ PipelineSpec
    /\ WF_vars(Start /\ UNCHANGED <<cvars, xvars, svars>>)
    /\ WF_vars(DetectorLoop /\ UNCHANGED <<cvars, xvars, svars>>)
    /\ \A e \in Endpoints : WF_vars(PipelineStep(e) /\ UNCHANGED <<cvars, xvars, svars>>)

-----------------------------------------------------------------------------
(* The Hot Store on its own *)

HotNext ==
    \/ HotInsert /\ UNCHANGED <<dvars, cvars, xvars>>
    \/ HotPurge /\ UNCHANGED <<dvars, cvars, xvars>>
    \/ RecentLatency /\ UNCHANGED <<dvars, cvars, xvars>>
    \/ ReadMetrics /\ UNCHANGED <<dvars, cvars, xvars>>
    \/ SuspectCommit /\ UNCHANGED <<dvars, cvars, xvars>>

HotSpec == Init /\ [][HotNext]_vars

-----------------------------------------------------------------------------
(* The cold store on its own *)

ArchiveNext ==
    \/ Flush /\ UNCHANGED <<dvars, cvars, xvars>>
    \/ Tick /\ UNCHANGED <<dvars, cvars, xvars>>
    \/ ReadHistorical /\ UNCHANGED <<dvars, cvars, xvars>>

ArchiveSpec == Init /\ [][ArchiveNext]_vars

-----------------------------------------------------------------------------
(* The Baseline Engine on its own *)

\* baseline.py 52-60: the events of the slot are appended to the group in
\* the order read_historical returned them; here BulkSize equal ones first.
ReadBulk ==
    /\ samples = <<>>
    /\ samples' = [i \in 1..BulkSize |-> 20]
    /\ UNCHANGED <<baselines, blast, segments, clock, alast, hvars>>

ReadSample ==
    /\ \/ Len(samples) < MaxSamples
       \/ Len(samples) >= BulkSize /\ Len(samples) < BulkSize + MaxSamples
    /\ \E v \in SampleValues : samples' = Append(samples, v)
    /\ UNCHANGED <<baselines, blast, segments, clock, alast, hvars>>

\* baseline.py 63-80: the body of the loop for the group read so far.
GroupStats ==
    /\ EnoughSamples(Len(samples))
    /\ baselines' = update_baseline(baselines, "/checkout", SampleSlot[1], SampleSlot[2],
                                    GroupMetrics(samples, [i \in 1..Len(samples) |-> 3]))
    /\ blast' = [op |-> "stats", of |-> samples]
    /\ UNCHANGED <<samples, segments, clock, alast, hvars>>

SampleNext ==
    \/ ReadBulk /\ UNCHANGED <<dvars, cvars, xvars>>
    \/ ReadSample /\ UNCHANGED <<dvars, cvars, xvars>>
    \/ GroupStats /\ UNCHANGED <<dvars, cvars, xvars>>

SampleSpec == Init /\ [][SampleNext]_vars

BaselineNext == ComputeBaseline /\ UNCHANGED <<dvars, cvars, xvars>>

BaselineSpec == Init /\ [][BaselineNext]_vars

-----------------------------------------------------------------------------
(* The Detector statement by statement: mark_resolved, called from a        *)
(* verifier thread, against the loop thread.  Neither takes a lock.         *)

\* The readings of checks in which no call raises.
RaceReadings == {r \in Readings : r.fault = "none"}

\* lines 90-135: the skip test, the reads and the scoring; no Detector state
\* is written.
RaceTest ==
    /\ dpc = "loop"
    /\ todo # <<>>
    /\ LET e == Head(todo)
       IN  IF e \in active_incidents
           THEN /\ todo' = Tail(todo)
                /\ dpc' = "loop"
                /\ last' = Op("skip", e, NoReading)
           ELSE \E r \in RaceReadings :
                /\ last' = Op("check", e, r)
                /\ IF r.latency = 0
                   THEN dpc' = "loop" /\ todo' = Tail(todo)
                   ELSE /\ dpc' = IF IsStrike(r) THEN "get" ELSE "normal"
                        /\ todo' = todo
    /\ UNCHANGED <<running, strikes, active_incidents, cycleErr, signalled,
                   handoff, lastSignal, tmp, resolving>>

\* line 137, right-hand side: self.strikes.get(endpoint, 0)
RaceGet ==
    /\ dpc = "get"
    /\ tmp' = strikes[Head(todo)]
    /\ dpc' = "store"
    /\ UNCHANGED <<running, todo, strikes, active_incidents, cycleErr,
                   signalled, handoff, lastSignal, last, resolving>>

\* line 137, the assignment: self.strikes[endpoint] = ... + 1
RaceStore ==
    /\ dpc = "store"
    /\ strikes' = [strikes EXCEPT ![Head(todo)] = tmp + 1]
    /\ tmp' = NoValue
    /\ resolving' = IF resolving.ep = Head(todo)
                    THEN [resolving EXCEPT !.struck = TRUE]
                    ELSE resolving
    /\ dpc' = "compare"
    /\ UNCHANGED <<running, todo, active_incidents, cycleErr, signalled,
                   handoff, lastSignal, last>>

\* line 144: self.strikes[endpoint] >= config.CONSECUTIVE_STRIKES
RaceCompare ==
    /\ dpc = "compare"
    /\ IF strikes[Head(todo)] >= CONSECUTIVE_STRIKES
       THEN dpc' = "add" /\ todo' = todo
       ELSE dpc' = "loop" /\ todo' = Tail(todo)
    /\ UNCHANGED <<running, strikes, active_incidents, cycleErr, signalled,
                   handoff, lastSignal, last, tmp, resolving>>

\* line 169: self.active_incidents.add(endpoint)
RaceAdd ==
    /\ dpc = "add"
    /\ active_incidents' = active_incidents \cup {Head(todo)}
    /\ dpc' = "zero"
    /\ UNCHANGED <<running, todo, strikes, cycleErr, signalled, handoff,
                   lastSignal, last, tmp, resolving>>

\* lines 170-201: self.strikes[endpoint] = 0, then the signal is built and
\* handed to a new thread.
RaceZero ==
    /\ dpc = "zero"
    /\ LET e == Head(todo)
       IN  /\ strikes' = [strikes EXCEPT ![e] = 0]
           /\ lastSignal' = RegressionEvent(e, last.rd)
           /\ signalled' = [signalled EXCEPT ![e] = @ + 1]
           /\ handoff' = [handoff EXCEPT ![e] = "running"]
    /\ todo' = Tail(todo)
    /\ dpc' = "loop"
    /\ UNCHANGED <<running, active_incidents, cycleErr, last, tmp, resolving>>

\* line 154: self.strikes[endpoint] = 0
RaceNormal ==
    /\ dpc = "normal"
    /\ strikes' = [strikes EXCEPT ![Head(todo)] = 0]
    /\ todo' = Tail(todo)
    /\ dpc' = "loop"
    /\ UNCHANGED <<running, active_incidents, cycleErr, signalled, handoff,
                   lastSignal, last, tmp, resolving>>

\* line 75: self.active_incidents.discard(endpoint)
ResolveDiscard(e) ==
    /\ resolving = Idle
    /\ active_incidents' = active_incidents \ {e}
    /\ signalled' = [signalled EXCEPT ![e] = 0]
    /\ resolving' = [ep |-> e, struck |-> FALSE]
    /\ UNCHANGED <<running, dpc, todo, strikes, cycleErr, handoff, lastSignal,
                   last, tmp>>

\* line 76: self.strikes[endpoint] = 0
ResolveZero ==
    /\ resolving # Idle
    /\ strikes' = [strikes EXCEPT ![resolving.ep] = 0]
    /\ resolving' = Idle
    /\ UNCHANGED <<running, dpc, todo, active_incidents, cycleErr, signalled,
                   handoff, lastSignal, last, tmp>>

RaceNext ==
    \/ Start /\ UNCHANGED <<cvars, xvars, svars>>
    \/ LoopTest /\ UNCHANGED <<cvars, xvars, svars>>
    \/ ListEndpoints /\ UNCHANGED <<cvars, xvars, svars>>
    \/ CycleEnd /\ UNCHANGED <<cvars, xvars, svars>>
    \/ RaceTest /\ UNCHANGED <<cvars, bpc, down, svars>>
    \/ RaceGet /\ UNCHANGED <<cvars, bpc, down, svars>>
    \/ RaceStore /\ UNCHANGED <<cvars, bpc, down, svars>>
    \/ RaceCompare /\ UNCHANGED <<cvars, bpc, down, svars>>
    \/ RaceAdd /\ UNCHANGED <<cvars, bpc, down, svars>>
    \/ RaceZero /\ UNCHANGED <<cvars, bpc, down, svars>>
    \/ RaceNormal /\ UNCHANGED <<cvars, bpc, down, svars>>
    \/ \E e \in Endpoints : ResolveDiscard(e) /\ UNCHANGED <<cvars, bpc, down, svars>>
    \/ ResolveZero /\ UNCHANGED <<cvars, bpc, down, svars>>

RaceSpec == Init /\ [][RaceNext]_vars

-----------------------------------------------------------------------------
(* The system as main_agent.main wires it: two processes *)

\* The traffic of the wired run: every event is a request to /checkout that
\* took 200 ms and made 3 queries, four times the default baseline latency.
EventOf(i) == [endpoint |-> "/checkout", latency_ms |-> 200, db_query_count |-> 3]

\* main_agent.py 43: the agent process builds a HotStore of its own, a DuckDB
\* ":memory:" database created empty (hot_store.py 30-33).  HotStore.insert
\* is called at collector.py 58 only, on the HotStore of the collector, which
\* runs as a subprocess (main_agent.py 75-79): nothing inserts into this one.
AgentHotStore == {}

\* main_agent.py 63-67: Detector(hot_store=hot_store, ...)
DetectorStore == AgentHotStore

\* The rows of store S for endpoint e that a query over the recent minutes sees.
Rows(S, e) == {i \in S \ aged : EventOf(i).endpoint = e}

RECURSIVE SumOf(_, _)
SumOf(R, field) ==
    IF R = {} THEN 0
    ELSE LET i == CHOOSE x \in R : TRUE
         IN  EventOf(i)[field] + SumOf(R \ {i}, field)

\* SELECT AVG(...): 0.0 when no row matches (the events of the wired run
\* carry equal values, so the quotient is exact).
AvgOf(R, field) == IF R = {} THEN 0 ELSE SumOf(R, field) \div Cardinality(R)

\* What _check_endpoint reads for e from store S (detector.py 106-115).
StoreReading(S, e) ==
    LET l == AvgOf(Rows(S, e), "latency_ms")
    IN  [fault |-> "none", latency |-> l,
         queries |-> AvgOf(Rows(S, e), "db_query_count"),
         baseline |-> IF l = 0 THEN NoBaseline ELSE DefaultBaseline]

\* line 86 against the Detector's store: the endpoints that have rows.
WiredList ==
    /\ dpc = "list"
    /\ \E l \in EndpointLists :
          /\ Elems(l) = {e \in Endpoints : Rows(DetectorStore, e) # {}}
          /\ todo' = l
    /\ dpc' = "loop"
    /\ cycleErr' = FALSE
    /\ last' = Other
    /\ UNCHANGED <<running, strikes, active_incidents, signalled, handoff,
                   lastSignal>>

\* The state the for-loop of lines 88-93 leaves after visiting the list l.
RECURSIVE RunChecks(_, _)
RunChecks(l, st) ==
    IF l = <<>> THEN st
    ELSE LET e == Head(l)
         IN  IF e \in st.active THEN RunChecks(Tail(l), st)
             ELSE LET out == check_endpoint(e, StoreReading(DetectorStore, e),
                                            st.strikes, st.active)
                      fired == out.signal # NoSignal
                  IN  RunChecks(Tail(l),
                        [strikes |-> out.strikes, active |-> out.active,
                         fired |-> IF fired THEN st.fired \cup {e} ELSE st.fired,
                         signal |-> IF fired THEN out.signal ELSE st.signal])

\* lines 88-98: the for-loop of one cycle, then the sleep.
WiredChecks ==
    /\ dpc = "loop"
    /\ LET st == RunChecks(todo, [strikes |-> strikes, active |-> active_incidents,
                                  fired |-> {}, signal |-> lastSignal])
       IN  /\ strikes' = st.strikes
           /\ active_incidents' = st.active
           /\ lastSignal' = st.signal
           /\ signalled' = [e \in Endpoints |->
                               IF e \in st.fired THEN signalled[e] + 1 ELSE signalled[e]]
           /\ handoff' = [e \in Endpoints |->
                             IF e \in st.fired THEN "running" ELSE handoff[e]]
    /\ todo' = <<>>
    /\ dpc' = "top"
    /\ last' = Other
    /\ UNCHANGED <<running, cycleErr>>

WiredLoop == LoopTest \/ WiredList \/ WiredChecks

WiredNext ==
    \/ Start /\ UNCHANGED <<cvars, xvars, svars>>
    \/ LoopTest /\ UNCHANGED <<cvars, xvars, svars>>
    \/ WiredList /\ UNCHANGED <<cvars, xvars, svars>>
    \/ WiredChecks /\ UNCHANGED <<cvars, xvars, svars>>
    \/ CollectorNext

WiredSpec == Init /\ [][WiredNext]_vars

\* The detection loop and the threads of the collector run whenever they can.
FairWiredSpec ==
    /\ WiredSpec
    /\ WF_vars(Start /\ UNCHANGED <<cvars, xvars, svars>>)
    /\ WF_vars(WiredLoop /\ UNCHANGED <<cvars, xvars, svars>>)

-----------------------------------------------------------------------------
(* Shutdown: main_agent.main, lines 87-122 *)

\* lines 98-105: the hourly job is registered and the run_scheduler thread
\* of the agent is started, after detector.start().
BaselineStart ==
    /\ bpc = "init"
    /\ dpc # "init"
    /\ bpc' = "sleep"
    /\ UNCHANGED <<dvars, cvars, tmp, resolving, down, svars>>

\* lines 100-103: run_pending finds recompute_baselines due.
BaselineWake ==
    /\ bpc = "sleep"
    /\ bpc' = "recompute"
    /\ UNCHANGED <<dvars, cvars, tmp, resolving, down, svars>>

\* lines 88-96: recompute_baselines; a failure for an endpoint is logged.
Recompute ==
    /\ bpc = "recompute"
    /\ bpc' = "sleep"
    /\ UNCHANGED <<dvars, cvars, tmp, resolving, down, svars>>

\* lines 119-122: KeyboardInterrupt in the main thread: detector.stop(),
\* then collector_proc.terminate(), a SIGTERM that ends the collector
\* process whatever its threads are doing.
Shutdown ==
    /\ ~down
    /\ bpc # "init"
    /\ down' = TRUE
    /\ running' = FALSE
    /\ last' = Other
    /\ spc' = "killed"
    /\ UNCHANGED <<dpc, todo, strikes, active_incidents, cycleErr, signalled,
                   handoff, lastSignal, ipc, hot, aged, flush_buffer,
                   buffer_lock, to_flush, batches, archive, tmp, resolving, bpc,
                   svars>>

\* line 122 is the last statement of main: the interpreter exits, and the
\* detection thread and the run_scheduler thread, both daemon threads
\* (detector.py 63, main_agent.py 105), end with it wherever they are.
ProcessExit ==
    /\ down
    /\ bpc # "killed"
    /\ bpc' = "killed"
    /\ dpc' = IF dpc = "exited" THEN dpc ELSE "killed"
    /\ UNCHANGED <<running, todo, strikes, active_incidents, cycleErr,
                   signalled, handoff, lastSignal, last, cvars, tmp, resolving,
                   down, svars>>

\* The wired system with its shutdown; the collector runs until terminated.
ShutdownNext ==
    \/ Start /\ UNCHANGED <<cvars, xvars, svars>>
    \/ LoopTest /\ UNCHANGED <<cvars, xvars, svars>>
    \/ WiredList /\ UNCHANGED <<cvars, xvars, svars>>
    \/ WiredChecks /\ UNCHANGED <<cvars, xvars, svars>>
    \/ ~down /\ CollectorNext
    \/ BaselineStart
    \/ BaselineWake
    \/ Recompute
    \/ Shutdown
    \/ ProcessExit

ShutdownSpec == Init /\ [][ShutdownNext]_vars

-----------------------------------------------------------------------------
(* Properties of the Detector *)

\* The reading was scored: every read returned and there was data.
Scored(r) == r.fault \notin ReadFaults /\ r.latency # 0

\* The reading was scored above the anomaly threshold.
Anomalous(r) == Scored(r) /\ IsStrike(r)

\* The loop thread is inside the body of a cycle.
InCycle == dpc \notin {"init", "top", "list", "exited"}

\* C1: a reading above the threshold takes a non-suppressed endpoint from n
\* strikes to n + 1 without a signal while n + 1 is below the strike limit,
\* and on reaching the limit suppresses it and emits exactly one Regression
\* Signal; a suppressed endpoint is skipped and emits none.
C1_EdgeTriggeredOnce ==
    /\ (last.op = "check" /\ Anomalous(last.rd)) =>
           IF last.n + 1 < CONSECUTIVE_STRIKES
           THEN /\ strikes[last.ep] = last.n + 1
                /\ last.ep \notin active_incidents
                /\ signalled[last.ep] = 0
           ELSE /\ last.ep \in active_incidents
                /\ signalled[last.ep] = 1
    /\ \A e \in active_incidents : signalled[e] <= 1

\* C2: a scored reading that is not above the threshold leaves the
\* endpoint's strike count at exactly 0, whatever it was before.
C2_NormalReadingResets ==
    (last.op = "check" /\ Scored(last.rd) /\ ~IsStrike(last.rd))
        => strikes[last.ep] = 0

C2_Witness ==
    /\ last.op = "check" /\ Scored(last.rd) /\ ~IsStrike(last.rd)
    /\ last.n = CONSECUTIVE_STRIKES - 1

\* C3: a check that reads a current latency of 0 changes no strike count
\* and not the suppression set, and emits no signal.
C3_NoDataChangesNothing ==
    [][(last'.op = "check" /\ last'.rd.latency = 0)
          => UNCHANGED <<strikes, active_incidents, signalled, handoff,
                         lastSignal>>]_vars

C3_Witness ==
    /\ last.op = "check" /\ last.rd.fault = "none" /\ last.rd.latency = 0
    /\ last.n >= 1
    /\ strikes[last.ep] = last.n

\* C4: an endpoint leaves the suppression set only by mark_resolved for
\* that same endpoint.
C4_OnlyResolveExits ==
    [][\A e \in Endpoints :
          (e \in active_incidents /\ e \notin active_incidents')
              => (last'.op = "resolve" /\ last'.ep = e)]_vars

C4_Witness ==
    \E e \in active_incidents :
        /\ last.op = "check" /\ last.ep # e
        /\ cycleErr

\* C5: mark_resolved on an endpoint that is not suppressed changes neither
\* the suppression set nor any strike count.
C5_ResolveNoOp ==
    [][(last'.op = "resolve" /\ last'.ep \notin active_incidents)
          => UNCHANGED <<strikes, active_incidents>>]_vars

\* C6: mark_resolved on a suppressed endpoint removes it from the
\* suppression set with strike count 0; only suppressed endpoints are
\* skipped; and an endpoint that was signalled before and is checked again
\* emits a new signal when its readings reach the strike limit.
C6_ResolveReenables ==
    /\ (last.op = "resolve" /\ last.was) =>
           (last.ep \notin active_incidents /\ strikes[last.ep] = 0)
    /\ last.op = "skip" => last.was
    /\ (/\ last.op = "check" /\ Anomalous(last.rd)
        /\ last.n + 1 >= CONSECUTIVE_STRIKES
        /\ handoff[last.ep] # "none") =>
           (signalled[last.ep] = 1 /\ handoff[last.ep] = "running")

\* C7: when the check of one endpoint raises and a non-suppressed endpoint
\* comes after it in the list of this cycle, the loop goes on to the
\* endpoints after it in this same cycle.
C7_FailureIsolation ==
    [][(/\ last'.op = "check" /\ cycleErr'
        /\ \E k \in 2..Len(todo) : todo[k] \notin active_incidents)
          => (todo' = Tail(todo) /\ dpc' = "loop")]_vars

\* C8: while the Detector is running, a cycle that raised is followed by
\* the start of a next cycle.
C8_LoopSurvivesErrors ==
    (cycleErr /\ running /\ dpc # "list") ~> (dpc = "list" \/ ~running)

C8_Witness == cycleErr /\ running /\ dpc = "list"

\* C9: with a callback in flight the loop finishes its cycle and starts the
\* next one, whether or not the callback ever ends; and a thread is started
\* for an endpoint only by a check that confirms it.
C9_HandoffNeverBlocks ==
    /\ \A e \in Endpoints :
          (handoff[e] = "running" /\ running /\ InCycle)
              ~> (dpc = "list" \/ ~running)
    /\ [][\A e \in Endpoints :
            (handoff[e] # "running" /\ handoff'[e] = "running")
                => (/\ last'.op = "check" /\ last'.ep = e
                    /\ e \notin active_incidents
                    /\ e \in active_incidents')]_vars

C9_Witness ==
    \E e \in Endpoints :
        /\ handoff[e] \in {"running", "raised"}
        /\ running /\ dpc = "list"
        /\ last.op = "other"

-----------------------------------------------------------------------------
(* Properties of the collector *)

Count(x, q) == Cardinality({k \in DOMAIN q : q[k] = x})

CountIn(x, qs) == Cardinality({k \in DOMAIN qs : x \in Elems(qs[k])})

\* The batch the running flush has swapped out and passes to ColdStore.flush.
Captured == IF spc \in {"flush_release", "flush_write"} THEN to_flush ELSE <<>>

\* C10: every event appended to the flush buffer is exactly once in the
\* buffer, in the batch the running flush has swapped out, or in a batch
\* passed to ColdStore.flush, and in no second place; outside a flush run
\* every captured batch has been passed on.
C10_SwapLosesNothing ==
    /\ \A i \in Requests :
          ipc[i] \in {"appended", "done"} =>
              /\ Count(i, flush_buffer) + Count(i, Captured)
                     + CountIn(i, batches) = 1
              /\ \A k \in DOMAIN batches : Count(i, batches[k]) <= 1
    /\ spc \in {"sleep", "purge", "dead", "flush_lock"} => to_flush = <<>>

C10_Witness ==
    /\ Len(batches) = 1
    /\ Len(flush_buffer) = 1
    /\ \E i \in Requests : ipc[i] = "done" /\ Count(i, flush_buffer) = 1
    /\ \E i \in Requests : ipc[i] = "done" /\ CountIn(i, batches) = 1

\* C11: the archive write happens outside the buffer lock.  In every state
\* in which flush_to_cold_store is executing ColdStore.flush the flush task
\* does not hold the buffer lock (it holds it only from the acquire to the
\* end of the swap), so an ingest can take the lock during the write.
C11_WriteOutsideLock ==
    /\ spc = "flush_write" => buffer_lock # FlushTask
    /\ buffer_lock = FlushTask =>
           spc \in {"flush_test", "flush_copy", "flush_assign", "flush_release"}

\* An ingest took the lock and appended while the archive write was pending.
C11_Witness ==
    /\ spc = "flush_write"
    /\ \E i \in Requests : buffer_lock = Ingest(i) /\ ipc[i] = "appended"

\* The step is a call of ColdStore.flush that raised: part of the captured
\* batch is not in the archive when the call ends.
FlushRaises == spc = "flush_write" /\ ~(Elems(to_flush) \subseteq archive')

\* C12: an archive write failure is never fatal to the scheduled tasks.  A
\* call of ColdStore.flush that raises does not end the scheduler thread:
\* the thread goes on to the purge task and to later cycles.
C12_ArchiveFailureNotFatal ==
    [][FlushRaises => spc' \in {"purge", "sleep", "flush_lock"}]_vars

\* Event i was in a batch passed to ColdStore.flush and the call ended
\* without writing it: the call raised.
WriteFailed(i) == CountIn(i, batches) > 0 /\ i \notin archive

\* C13: a failed archive write is retried by the next scheduled run.  The
\* events of a batch for which ColdStore.flush raised are not dropped: a
\* later scheduled flush writes them to the Cold Archive.
C13_FailedWriteRetried ==
    \A i \in Requests : WriteFailed(i) ~> (i \in archive)

\* Nothing of request i is stored anywhere.
Unwritten(i) ==
    /\ i \notin hot
    /\ i \notin archive
    /\ Count(i, flush_buffer) = 0
    /\ Count(i, to_flush) = 0
    /\ CountIn(i, batches) = 0

\* C14: malformed input causes no partial write.  The call that finds the
\* payload malformed answers with the client error and changes neither the
\* Hot Store nor the flush buffer, the answer is final, and nothing of the
\* request is ever stored.
C14_MalformedWritesNothing ==
    /\ [](\A i \in Requests : ipc[i] \in {"malformed", "invalid"} => Unwritten(i))
    /\ [][\A i \in Requests :
            /\ (ipc[i] = "malformed" /\ ipc'[i] # "malformed") =>
                   (ipc'[i] = "invalid" /\ UNCHANGED <<hot, flush_buffer>>)
            /\ ipc[i] = "invalid" => ipc'[i] = "invalid"]_vars

\* A malformed request was refused while the stores hold other events.
C14_Witness ==
    /\ \E i \in Requests : ipc[i] = "invalid"
    /\ hot # {}
    /\ flush_buffer # <<>>

\* The events ingest accepted that the Hot Store of the gateway holds and
\* that are recent.
Accepted == {i \in hot \ aged : ipc[i] = "done"}

\* C15: ingested telemetry reaches the Detector.  Every poll of the Detector
\* lists the endpoints of the accepted events the gateway's Hot Store holds,
\* and traffic for /checkout above the threshold that stays in that store
\* eventually produces a Regression Signal.
C15_TelemetryReachesDetector ==
    /\ [][(dpc = "list" /\ dpc' = "loop") =>
            \A i \in Accepted : EventOf(i).endpoint \in Elems(todo')]_vars
    /\ (<>[](\E i \in Accepted : EventOf(i).endpoint = "/checkout"))
           => <>(signalled["/checkout"] >= 1)

\* The step before was the check that confirmed a regression and built the
\* signal.
Confirming ==
    /\ last.op = "check"
    /\ last.rd.fault = "none"
    /\ Anomalous(last.rd)
    /\ last.n + 1 >= CONSECUTIVE_STRIKES

\* C16: the Regression Signal carries the baseline as 'before' and the
\* confirming reading as 'after'.  The signal built by a confirming check has
\* the avg_latency_ms and avg_query_count of the Baseline Record read in that
\* check as latency_before_ms and query_count_before and the current values
\* read in that check as latency_after_ms and query_count_after; no other
\* step builds a signal.
C16_SignalBeforeAfter ==
    /\ [](Confirming =>
            lastSignal = [affected_endpoint |-> last.ep,
                          latency_before_ms |-> last.rd.baseline.avg_latency_ms,
                          latency_after_ms |-> last.rd.latency,
                          query_count_before |-> last.rd.baseline.avg_query_count,
                          query_count_after |-> last.rd.queries])
    /\ [][lastSignal' # lastSignal => Confirming']_vars

\* Baseline 12 ms, a third cycle at 60 ms: before 12, after 60.
C16_Witness ==
    /\ Confirming
    /\ last.n = CONSECUTIVE_STRIKES - 1
    /\ signalled[last.ep] = 1
    /\ lastSignal.latency_before_ms = 12
    /\ lastSignal.latency_after_ms = 60

\* current / baseline > threshold, a ratio over a baseline of 0 being 0.
Over(current, baseline) ==
    baseline # 0 /\ current > ANOMALY_THRESHOLD * baseline

Persisted(e) == handoff[e] \in {"saved", "returned", "raised"}

\* C18: an Incident Record is created by the Detector at confirmation time.
\* When a detection cycle has ended, the Incident Record of every signal
\* emitted so far is in the Incident Ledger, whether or not the hand-off
\* thread has run or succeeded.
C18_IncidentRecordAtConfirmation ==
    dpc = "top" => \A e \in Endpoints : handoff[e] # "none" => Persisted(e)

\* C19: Detector state is safe under concurrent resolve: whatever the
\* interleaving of mark_resolved with a check, the result is that of one of
\* the two serial orders.  Two things no serial order can show never happen:
\* the second statement of mark_resolved erases a strike recorded after the
\* first statement of the same call, and the increment of line 137 stores a
\* count computed from a value mark_resolved has replaced in between.
C19_ConcurrentResolveSafe ==
    [][/\ (resolving # Idle /\ resolving' = Idle) => ~resolving.struck
       /\ (dpc = "store" /\ dpc' = "compare") => strikes[Head(todo)] = tmp]_vars

\* C20: clean shutdown of all periodic loops.  A loop is ended only between
\* two of its cycles (the detection loop in its sleep, the flush and purge
\* loop and the baseline loop in theirs), and once the shutdown signal is
\* given no loop starts a further cycle.
C20_CleanShutdown ==
    [][/\ (dpc # "killed" /\ dpc' = "killed") => dpc = "top"
       /\ (spc # "killed" /\ spc' = "killed") => spc \in {"sleep", "dead"}
       /\ (bpc # "killed" /\ bpc' = "killed") => bpc = "sleep"
       /\ down => /\ ~(dpc = "top" /\ dpc' = "list")
                  /\ ~(spc = "sleep" /\ spc' = "flush_lock")
                  /\ ~(bpc = "sleep" /\ bpc' = "recompute")]_vars

\* C21: every endpoint that enters the suppression set eventually leaves it.
\* Once a Regression Signal for an endpoint has been handed to the
\* investigation pipeline, mark_resolved is eventually called for it and
\* the endpoint is no longer suppressed, whatever the investigation, the
\* gate, the CI check and the verification come to.
C21_SuppressionEventuallyEnds ==
    \A e \in Endpoints :
        (handoff[e] = "running" /\ e \in active_incidents)
            ~> (e \notin active_incidents)

\* C23: baseline recomputation runs at startup as well as hourly.  When the
\* baseline loop of the agent starts, recompute_baselines runs without
\* waiting for the first hourly tick, and every tick after that runs it.
C23_BaselineAtStartup ==
    [][/\ (bpc = "init" /\ bpc' # "init") => bpc' = "recompute"
       /\ (bpc = "sleep" /\ bpc' \notin {"sleep", "killed"}) => bpc' = "recompute"]_vars

\* The rows of the baselines table for the key k.
RowsOf(T, k) == {r \in T : KeyOf(r) = k}

\* C22: at most one Baseline Record per key.  After any sequence of
\* update_baseline calls the table holds at most one row for each
\* (endpoint, hour of day, day of week), and the row of every key that was
\* ever upserted carries the metrics of the last upsert for that key.
C22_OneRecordPerKey ==
    /\ \A r1, r2 \in baselines : KeyOf(r1) = KeyOf(r2) => r1 = r2
    /\ blast.op = "compute" =>
          /\ \A k \in DOMAIN blast.upserts :
                RowsOf(baselines, k) = {BaselineRow(k[1], k[2], k[3], blast.upserts[k])}
          /\ \A r \in baselines : KeyOf(r) \in DOMAIN blast.upserts

\* An upsert has replaced a row that held other metrics, and the table holds
\* rows for several keys.
C22_Witness ==
    /\ blast.op = "compute"
    /\ blast.replaced # {}
    /\ Cardinality(baselines) >= 3

\* The number of archived events of a history.
Archived(sizes) == TotalEvents([sl \in Slots |-> SlotEvents(sizes[sl])], Slots)

C25_SmallGroupsSkipped ==
    [][(blast'.op = "compute" /\ Archived(blast'.sizes) >= 50) =>
        LET e == blast'.endpoint
        IN  /\ \A sl \in Slots :
                  LET k == <<e, sl[1], sl[2]>>
                  IN  IF blast'.sizes[sl] < 5
                      THEN RowsOf(baselines', k) = RowsOf(baselines, k)
                      ELSE \E r \in baselines' :
                              /\ RowsOf(baselines', k) = {r}
                              /\ r.metrics.sample_size = blast'.sizes[sl]
            /\ \A r \in baselines \cup baselines' :
                  r.endpoint # e => (r \in baselines <=> r \in baselines')]_vars

\* A call with groups of 4 and 46 events has left the slot of the small
\* group without a row and written the row of the large one.
C25_Witness ==
    /\ blast.op = "compute"
    /\ blast.sizes[<<14, 1>>] = 4
    /\ blast.sizes[<<15, 1>>] = 46
    /\ RowsOf(baselines, <<blast.endpoint, 14, 1>>) = {}
    /\ \E r \in RowsOf(baselines, <<blast.endpoint, 15, 1>>) : r.metrics.sample_size = 46

\* C26: the p95 is nearest-rank on the sorted latencies.  For a group of
\* n >= 5 samples the stored p95 is the value at index floor(0.95 n) of the
\* samples in ascending order (fewer than index + 1 samples lie below it,
\* at least index + 1 do not exceed it), the index lies in 0..n-1, and the
\* value depends on the samples only, not on the order they were read in.
C26_P95NearestRank ==
    blast.op = "stats" =>
        LET q == blast.of
            n == Len(q)
            idx == (95 * n) \div 100
            rows == RowsOf(baselines, <<"/checkout", SampleSlot[1], SampleSlot[2]>>)
        IN  /\ n >= 5
            /\ idx \in 0..(n - 1)
            /\ rows # {}
            /\ \A r \in rows :
                  /\ Cardinality({i \in 1..n : q[i] < r.metrics.p95_latency_ms}) <= idx
                  /\ Cardinality({i \in 1..n : q[i] <= r.metrics.p95_latency_ms}) > idx

\* 21 samples read with the slowest among the last: the stored p95 is not
\* the maximum.
C26_Witness ==
    /\ blast.op = "stats"
    /\ Len(blast.of) = BulkSize + 5
    /\ blast.of[BulkSize + 1] = 100
    /\ \E r \in baselines : r.metrics.p95_latency_ms = 20

\* The segment k holds the event x.
Holds(S, k, x) == \E j \in 1..Len(S[k].of) : S[k].of[j] = x

\* A step in which a flush call has acted.
FlushStep == alast'.op = "flush" /\ (alast' # alast \/ segments' # segments)

\* Each event of the batch is in exactly one segment the call wrote, and
\* that segment lies in the partition of the event's own timestamp.
OwnPartition ==
    \A i \in 1..Len(alast'.batch) :
        /\ Cardinality({k \in alast'.written :
                           Holds(segments', k, alast'.batch[i])}) = 1
        /\ \A k \in alast'.written :
              Holds(segments', k, alast'.batch[i]) =>
                  k[1] = alast'.batch[i].timestamp.hour

\* The call has added exactly one segment for each partition present in
\* the batch, and none elsewhere.
OneNewSegmentPerPartition ==
    LET batch == alast'.batch
        new == DOMAIN segments' \ DOMAIN segments
    IN  /\ \A p \in {batch[i].timestamp.hour : i \in 1..Len(batch)} :
              Cardinality({k \in new : k[1] = p}) = 1
        /\ \A k \in new : \E i \in 1..Len(batch) : k[1] = batch[i].timestamp.hour

\* C27: flush partitions strictly by event timestamp.  In every call each
\* event of the batch is written to exactly one segment, which lies in the
\* partition of the event's own timestamp, and the call adds exactly one
\* new segment for each partition present in the batch and none elsewhere.
C27_PartitionedByEventTime ==
    [][FlushStep => (OwnPartition /\ OneNewSegmentPerPartition)]_vars

\* C28: the archive is append-only.  No flush overwrites or removes a
\* segment: every segment that exists keeps its contents in every step.
C28_AppendOnly ==
    [][\A k \in DOMAIN segments :
          k \in DOMAIN segments' /\ segments'[k] = segments[k]]_vars

\* The hours read_historical is to open at time t.
Window(t, hours_back) == (HourOf(t) - hours_back + 1)..HourOf(t)

\* C29: partition pruning.  read_historical(endpoint, hours_back) opens the
\* hours_back hourly partitions ending with the current hour and no other,
\* with hours_back = 1 the current one alone, and every row it returns
\* comes from one of them.
C29_PartitionPruning ==
    alast.op = "read" =>
        /\ alast.opened = Window(alast.at, alast.hours_back)
        /\ alast.hours_back = 1 => alast.opened = {HourOf(alast.at)}
        /\ \A i \in 1..Len(alast.results) :
              alast.results[i].timestamp.hour \in Window(alast.at, alast.hours_back)

\* A read of the current hour alone has returned rows while an earlier
\* partition holds rows of the same endpoint.
C29_Witness ==
    /\ alast.op = "read"
    /\ alast.hours_back = 1
    /\ alast.results # <<>>
    /\ \E k \in DOMAIN segments :
          /\ k[1] < HourOf(alast.at)
          /\ \E j \in 1..Len(segments[k].rows) : segments[k].rows[j].endpoint = alast.endpoint

\* C30: archive round trip.  Every event held by a segment of a partition
\* the read opens, for the endpoint read, is returned with all fields equal
\* to the original, the absent error message and the full timestamp
\* included.
C30_RoundTrip ==
    alast.op = "read" =>
        \A k \in DOMAIN segments :
            k[1] \in alast.opened =>
                \A j \in 1..Len(segments[k].of) :
                    segments[k].of[j].endpoint = alast.endpoint =>
                        \E i \in 1..Len(alast.results) :
                            alast.results[i] = segments[k].of[j]

\* The rows of the events table that belong to the endpoint e and are
\* younger than the given number of minutes.
Within(e, minutes) ==
    {i \in 1..Len(events) :
        events[i].endpoint = e /\ HotNow - events[i].timestamp < minutes}

RECURSIVE LatencyOver(_)
LatencyOver(I) ==
    IF I = {} THEN 0
    ELSE LET i == CHOOSE x \in I : TRUE
         IN  events[i].latency_ms + LatencyOver(I \ {i})

RECURSIVE QueriesOver(_)
QueriesOver(I) ==
    IF I = {} THEN 0
    ELSE LET i == CHOOSE x \in I : TRUE
         IN  events[i].db_query_count + QueriesOver(I \ {i})

\* C31: get_recent_latency never errors on empty input.  It returns 0 when
\* no row of the endpoint with a status below 500 lies in the trailing
\* window, and otherwise the mean latency of exactly those rows.
C31_RecentAverage ==
    hlast.op = "latency" =>
        LET I == {i \in Within(hlast.endpoint, hlast.minutes) :
                    events[i].status_code < 500}
        IN  IF I = {}
            THEN hlast.result = <<0, 1>>
            ELSE /\ hlast.result[2] > 0
                 /\ hlast.result[1] * Cardinality(I) = LatencyOver(I) * hlast.result[2]

\* The mean of the last three minutes of /checkout is that of the one
\* healthy row in it, with a server error in the window and an older row
\* outside it.
C31_Witness ==
    /\ hlast.op = "latency"
    /\ hlast.endpoint = "/checkout"
    /\ hlast.minutes = 3
    /\ hlast.result = <<40, 1>>
    /\ \E i \in 1..Len(events) : events[i].status_code = 500
    /\ \E i \in 1..Len(events) : events[i].timestamp = 26

\* C32: eviction is strictly by age.  Right after purge_old_events the table
\* holds no row older than the retention window and holds every row of the
\* table before the purge that is inside the window, in the same order,
\* whatever the order of the inserts and the size of the table.
C32_EvictionByAge ==
    hlast.op = "purge" =>
        LET before == hlast.before
            keep == {i \in 1..Len(before) :
                        HotNow - before[i].timestamp <= HOT_STORE_WINDOW_MIN}
        IN  /\ \A i \in 1..Len(events) :
                  HotNow - events[i].timestamp <= HOT_STORE_WINDOW_MIN
            /\ Len(events) = Cardinality(keep)
            /\ \A i \in keep :
                  events[Cardinality({j \in keep : j <= i})] = before[i]

\* A full table whose newest row was inserted first and whose expired row
\* was inserted second has lost the expired row alone.
C32_Witness ==
    /\ hlast.op = "purge"
    /\ Len(hlast.before) = MaxEvents
    /\ hlast.before[1].timestamp = 30
    /\ hlast.before[2].timestamp = 0
    /\ Len(events) = MaxEvents - 1

\* C33: the suspect revision of a signal is the most recent revision seen
\* for the endpoint in the retention window.  It is the first of the
\* revisions get_recent_commit_shas returns, it is "unknown" exactly when
\* no row of the endpoint is in the window, and otherwise it is the
\* revision of a latest row of the endpoint, also when traffic has returned
\* to a revision seen before a newer one.
C33_SuspectIsMostRecentRevision ==
    hlast.op = "shas" =>
        LET W == Within(hlast.endpoint, TrendWindowMin)
        IN  /\ hlast.commit_sha = "unknown" <=> W = {}
            /\ hlast.recent_shas # <<>> => hlast.commit_sha = hlast.recent_shas[1]
            /\ W # {} =>
                  \E i \in W :
                      /\ events[i].commit_sha = hlast.commit_sha
                      /\ \A j \in W : events[j].timestamp <= events[i].timestamp

\* C36: the query-count reading covers the same trailing window as the
\* latency reading.  Whenever _check_endpoint goes on to score (the latency
\* reading is not 0), the current query count is the mean over the rows of
\* the endpoint of the last 3 minutes.
C36_QueryWindowIsLatencyWindow ==
    (hlast.op = "metrics" /\ hlast.current_latency # <<0, 1>>) =>
        LET I == Within(hlast.endpoint, CheckWindowMin)
        IN  hlast.current_queries[1] * Cardinality(I) =
                QueriesOver(I) * hlast.current_queries[2]

\* C34: read_historical is complete for the requested range.  Every archived
\* event of the endpoint whose timestamp lies within the last hours_back
\* hours before the call is among the rows returned, those of the earliest,
\* partly covered hour of the range included.
C34_ScanComplete ==
    alast.op = "read" =>
        \A k \in DOMAIN segments :
            \A j \in 1..Len(segments[k].of) :
                LET x == segments[k].of[j]
                IN  (/\ x.endpoint = alast.endpoint
                     /\ x.timestamp.tick <= alast.at
                     /\ alast.at - x.timestamp.tick < alast.hours_back * TicksPerHour) =>
                        \E i \in 1..Len(alast.results) :
                            alast.results[i] = segments[k].rows[j]

\* C35: detector.mark_resolved(e) is called only after verify_fix read a
\* non-zero recent latency at or below 1.3 times the baseline and after the
\* Incident Record was marked resolved: e leaves the suppression set only in
\* the on_resolved step, which follows the ledger's commit, which follows a
\* round of the verifier whose reading qualifies; after a timeout e is and
\* stays suppressed.
C35_ResolvedOnlyAfterRecordedRecovery ==
    [][\A e \in Endpoints :
          /\ (e \in active_incidents /\ e \notin active_incidents')
                => (handoff'[e] = "resolved" /\ last'.op = "resolve" /\ last'.ep = e)
          /\ (handoff'[e] = "resolved" /\ handoff[e] # "resolved")
                => handoff[e] = "recorded"
          /\ (handoff'[e] = "recorded" /\ handoff[e] # "recorded")
                => handoff[e] = "recovered"
          /\ (handoff'[e] = "recovered" /\ handoff[e] # "recovered")
                => /\ handoff[e] = "verifying"
                   /\ last'.op = "verify" /\ last'.ep = e
                   /\ last'.rd.latency # 0
                   /\ 10 * last'.rd.latency <= 13 * last'.rd.baseline.avg_latency_ms
          /\ handoff[e] = "timed_out"
                => (handoff'[e] = "timed_out" /\ e \in active_incidents
                    /\ e \in active_incidents')]_vars

C35_Witness ==
    \E e, f \in Endpoints :
        /\ handoff[e] = "resolved" /\ e \notin active_incidents
        /\ handoff[f] = "timed_out" /\ f \in active_incidents

\* C37: in every reachable state, each endpoint of the suppression set had a
\* Regression Signal handed to on_regression when it was added, also when
\* the Hot Store queries of _fire_regression raise.
C37_SuppressionComesWithSignal ==
    \A e \in Endpoints : e \in active_incidents => signalled[e] >= 1

StrikeBounds ==
    \A e \in Endpoints :
        /\ 0 <= strikes[e] /\ strikes[e] < CONSECUTIVE_STRIKES
        /\ e \in active_incidents => strikes[e] = 0

\* C38: at the end of every detection cycle and after every mark_resolved,
\* each endpoint's strike count is at least 0 and below CONSECUTIVE_STRIKES,
\* and each endpoint of the suppression set has strike count 0.
C38_StrikeCountBounds ==
    [][(\/ dpc # "top" /\ dpc' = "top"
        \/ resolving # Idle /\ resolving' = Idle) => StrikeBounds']_vars

\* C39: compute_baseline never replaces a Baseline Record whose sample size
\* is greater than 0 by the default record with sample size 0; with fewer
\* than 50 records it changes at most the record of the current (hour of
\* day, day of week) key and leaves every other key as it was.
C39_ComputedNeverDegraded ==
    [][blast'.op = "compute" =>
        LET e == blast'.endpoint
            now == blast'.now
        IN  /\ \A r \in baselines :
                  r.metrics.sample_size > 0 =>
                      BaselineRow(r.endpoint, r.hour_of_day, r.day_of_week,
                                  DefaultMetrics) \notin baselines'
            /\ Archived(blast'.sizes) < MinHistory =>
                  \A r \in baselines \cup baselines' :
                      KeyOf(r) # <<e, now[1], now[2]>> =>
                          (r \in baselines <=> r \in baselines')]_vars

====
